---------------------------- MODULE Spec2Model ----------------------------
(***************************************************************************)
(* A model of the finance-chatbot backend: the /api/chat handler           *)
(* (backend/app.py), the vector-store helpers (backend/chromadb_setup.py)  *)
(* and the response generator (backend/utils/response_generator.py).       *)
(*                                                                         *)
(* Python strings are TLA+ strings (Len, \o and SubSeq act on them).       *)
(* Python's None is the value None below; a dictionary key that is absent  *)
(* is the value Absent.                                                    *)
(***************************************************************************)
EXTENDS Integers, Sequences, FiniteSets, TLC

(***************************************************************************)
(* Bounds of the model.                                                    *)
(***************************************************************************)
\* longest passage list handed to generate_detailed_response from a pool of
\* varied passages
MaxPassages == 2
\* longest passage list in the URL-fetching study (passages differ by URL only)
MaxUrlPassages == 6
\* longest raw document list handed to _prepare_passages
MaxDocs == 3
\* longest passage list in the study of the section cap
MaxLongList == 6
\* longest passage list in the study of the prompt caps
MaxPromptList == 13
\* longest chunk list handed to add_documents_to_chromadb
MaxChunks == 3
\* most files, and most URLs, in one upload request
MaxUploads == 2
\* most messages in the chat history of a session
MaxMessages == 4

(***************************************************************************)
(* Python values.                                                          *)
(***************************************************************************)
None == "<None>"
Absent == "<absent>"

\* Python truthiness of an Optional[str]
Truthy(s) == s # None /\ s # Absent /\ s # ""

\* a `or` b on Optional[str]
Or(a, b) == IF Truthy(a) THEN a ELSE b

\* str.isspace for one character
IsSpace(c) == c \in {" ", "\n", "\t", "\r"}

RECURSIVE LStrip(_)
LStrip(s) ==
    IF Len(s) = 0 THEN s
    ELSE IF IsSpace(SubSeq(s, 1, 1)) THEN LStrip(SubSeq(s, 2, Len(s)))
    ELSE s

RECURSIVE RStrip(_)
RStrip(s) ==
    IF Len(s) = 0 THEN s
    ELSE IF IsSpace(SubSeq(s, Len(s), Len(s))) THEN RStrip(SubSeq(s, 1, Len(s) - 1))
    ELSE s

\* str.strip()
Strip(s) == LStrip(RStrip(s))

\* `sub in s`
Contains(s, sub) ==
    \E i \in 1..(Len(s) - Len(sub) + 1) : SubSeq(s, i, i + Len(sub) - 1) = sub

\* s.startswith(pre)
StartsWith(s, pre) == Len(s) >= Len(pre) /\ SubSeq(s, 1, Len(pre)) = pre

Digit(d) == SubSeq("0123456789", d + 1, d + 1)

\* str(n) for a natural number
RECURSIVE ToStr(_)
ToStr(n) == IF n < 10 THEN Digit(n) ELSE ToStr(n \div 10) \o Digit(n % 10)

\* "\n".join(parts)
RECURSIVE JoinLines(_)
JoinLines(parts) ==
    IF Len(parts) = 0 THEN ""
    ELSE IF Len(parts) = 1 THEN parts[1]
    ELSE parts[1] \o "\n" \o JoinLines(Tail(parts))


\* s * n
RECURSIVE Repeat(_, _)
Repeat(s, n) ==
    IF n = 0 THEN ""
    ELSE LET half == Repeat(s, n \div 2)
         IN  IF n % 2 = 0 THEN half \o half ELSE half \o half \o s

\* 3200 characters of text
LongText == Repeat("Tuition is 100. ", 200)

(***************************************************************************)
(* Raw vector-store values.  A document is a string, None, a list of parts *)
(* (multi-part text); a metadata entry is a dict or something else; a      *)
(* distance is a number (in hundredths) or something float() rejects.      *)
(* meta.get("has_images", False) and meta.get("image_count", 0) make an    *)
(* absent key the same as its default, so a dict always carries both.      *)
(***************************************************************************)
StrDoc(s) == [t |-> "str", v |-> s, parts |-> <<>>]
NoneDoc == [t |-> "none", v |-> "", parts |-> <<>>]
ListDoc(ps) == [t |-> "list", v |-> "", parts |-> ps]
\* a document that is a number; v is its str()
NumDoc(n) == [t |-> "num", v |-> ToStr(n), parts |-> <<>>]

MetaDict(src, fname, u, su, img) ==
    [isdict |-> TRUE, source |-> src, file_name |-> fname, url |-> u, source_url |-> su,
     has_images |-> img > 0, image_count |-> img]
NotADict ==
    [isdict |-> FALSE, source |-> Absent, file_name |-> Absent, url |-> Absent,
     source_url |-> Absent, has_images |-> FALSE, image_count |-> 0]
EmptyMeta == MetaDict(Absent, Absent, Absent, Absent, 0)

NoDistance == [isnum |-> FALSE, v |-> 0]
Distance(h) == [isnum |-> TRUE, v |-> h]
RawDist(h) == [t |-> "num", v |-> h]
BadDist == [t |-> "bad", v |-> 0]

\* A field of the raw result, by the branch of _flatten_chroma_field it takes:
\*   "absent"  the key is missing            (retrieved.get(key) is None)
\*   "none"    the key holds None or []      (falsy)
\*   "scalar"  the key holds a non-list x    (items = <<x>>)
\*   "nested"  a list whose first element is a list (items = that first list)
\*   "flat"    a list whose first element is not a list (items = the list)
Field(shape, items) == [shape |-> shape, items |-> items]
NoField == Field("absent", <<>>)

\* " ".join(str(t) for t in text if t)
RECURSIVE JoinParts(_)
JoinParts(ps) ==
    IF Len(ps) = 0 THEN ""
    ELSE IF ~Truthy(ps[1]) THEN JoinParts(Tail(ps))
    ELSE LET rest == JoinParts(Tail(ps)) IN
         IF \A i \in 2..Len(ps) : ~Truthy(ps[i]) THEN ps[1] ELSE ps[1] \o " " \o rest

\* _flatten_chroma_field applied to `retrieved.get(key) or []`
_flatten_chroma_field(field) ==
    CASE field.shape \in {"absent", "none"} -> <<>>
      [] field.shape = "scalar" -> field.items
      [] field.shape = "nested" -> field.items
      [] OTHER -> field.items

\* the text of one document: joined, then stripped
Joined(doc) ==
    Strip(IF doc.t = "list" THEN JoinParts(doc.parts)
          ELSE IF doc.t = "none" THEN ""
          ELSE doc.v)

\* the end of the run of non-space characters that starts at i
RECURSIVE RunEnd(_, _)
RunEnd(s, i) ==
    IF i < Len(s) /\ ~IsSpace(SubSeq(s, i + 1, i + 1)) THEN RunEnd(s, i + 1) ELSE i

\* re.findall(r'https?://\S+', s): the first match, or None
FirstUrl(s) ==
    LET At(i, pre) ==
            /\ i + Len(pre) <= Len(s)
            /\ SubSeq(s, i, i + Len(pre) - 1) = pre
            /\ ~IsSpace(SubSeq(s, i + Len(pre), i + Len(pre)))
        starts == {i \in 1..Len(s) : At(i, "http://") \/ At(i, "https://")}
    IN  IF starts = {} THEN None
        ELSE LET i == CHOOSE j \in starts : \A k \in starts : j <= k
             IN  SubSeq(s, i, RunEnd(s, i))

\* the passage _prepare_passages builds for the document at 0-based index idx
PassageId(idx) == "P" \o ToStr(idx + 1)

\* An expression either gives a value or raises.
Ok(v) == [raised |-> FALSE, v |-> v]
Throw(v) == [raised |-> TRUE, v |-> v]

\* xs[idx] is inside the list (IndexError otherwise)
CanIndex(xs, idx) == idx < Len(xs)
\* float(d) accepts d (ValueError or TypeError otherwise)
CanFloat(d) == d.t = "num"

\* line 78: metas[idx] behind its two guards
MetaAt(metas, idx) ==
    IF ~CanIndex(metas, idx) THEN Ok(EmptyMeta)
    ELSE IF ~metas[idx + 1].isdict THEN Ok(EmptyMeta)
    ELSE Ok(metas[idx + 1])

\* lines 80-86 with float() outside any try
DistanceAtNoTry(dists, idx) ==
    IF ~CanIndex(dists, idx) THEN Ok(NoDistance)
    ELSE IF ~CanFloat(dists[idx + 1]) THEN Throw(NoDistance)
    ELSE Ok(Distance(dists[idx + 1].v))

\* lines 80-86: float(dists[idx]) behind the guard and inside try/except
DistanceAt(dists, idx) ==
    IF ~CanIndex(dists, idx) THEN Ok(NoDistance)
    ELSE IF ~CanFloat(dists[idx + 1]) THEN Ok(NoDistance)
    ELSE Ok(Distance(dists[idx + 1].v))

\* lines 88-94 with a URL of the text taken before the metadata
PassageAtTextFirst(docs, metas, dists, idx) ==
    LET meta == MetaAt(metas, idx).v
        distance == DistanceAt(dists, idx).v
        source == IF meta.source # Absent THEN meta.source
                  ELSE IF meta.file_name # Absent THEN meta.file_name
                  ELSE "Unknown"
        metaUrl == Or(meta.url, Or(meta.source_url, None))
        found == FirstUrl(Joined(docs[idx + 1]))
    IN  [id |-> PassageId(idx),
         text |-> Joined(docs[idx + 1]),
         source |-> source,
         url |-> IF found # None THEN found ELSE metaUrl,
         distance |-> distance,
         has_images |-> meta.has_images,
         image_count |-> meta.image_count]

PassageAt(docs, metas, dists, idx) ==
    LET meta == MetaAt(metas, idx).v
        distance == DistanceAt(dists, idx).v
        source == IF meta.source # Absent THEN meta.source
                  ELSE IF meta.file_name # Absent THEN meta.file_name
                  ELSE "Unknown"
        metaUrl == Or(meta.url, Or(meta.source_url, None))
        found == FirstUrl(Joined(docs[idx + 1]))
    IN  [id |-> PassageId(idx),
         text |-> Joined(docs[idx + 1]),
         source |-> source,
         url |-> IF found # None /\ ~Truthy(metaUrl) THEN found ELSE metaUrl,
         distance |-> distance,
         has_images |-> meta.has_images,
         image_count |-> meta.image_count]

RECURSIVE PrepareFrom(_, _, _, _)
PrepareFrom(docs, metas, dists, idx) ==
    IF idx >= Len(docs) THEN <<>>
    ELSE IF Joined(docs[idx + 1]) = "" THEN PrepareFrom(docs, metas, dists, idx + 1)
    ELSE <<PassageAt(docs, metas, dists, idx)>> \o PrepareFrom(docs, metas, dists, idx + 1)

\* _prepare_passages(retrieved)
_prepare_passages(r) ==
    PrepareFrom(_flatten_chroma_field(r.documents),
                _flatten_chroma_field(r.metadatas),
                _flatten_chroma_field(r.distances), 0)

\* an exception leaves _prepare_passages: one raised while a document that
\* is not skipped was turned into a passage
PrepareRaises(r) ==
    LET docs == _flatten_chroma_field(r.documents)
        metas == _flatten_chroma_field(r.metadatas)
        dists == _flatten_chroma_field(r.distances)
    IN  \E idx \in 0..(Len(docs) - 1) :
           /\ Joined(docs[idx + 1]) # ""
           /\ MetaAt(metas, idx).raised \/ DistanceAt(dists, idx).raised


(***************************************************************************)
(* The state.                                                              *)
(***************************************************************************)
VARIABLES
    google_client,    \* module level: TRUE when the Gemini client was built
    collection,       \* module level (app.py): TRUE when ChromaDB initialised
    pc,               \* where the request stands
    caller,           \* "chat" (the /api/chat handler), "direct" or "none"
    user_query,
    retrieved_data,   \* the dict handed over as retrieved_data
    store_reply,      \* what the vector-store query did ("not_called" before it)
    normalized,       \* what _prepare_passages returned (normaliser study)
    out,              \* what the function under study returned (pure-function studies)
    escaped,          \* TRUE when an exception left the function that ran
    args,             \* the arguments of the function under study (other studies)
    passages,         \* generate_detailed_response: its local `passages`
    idx,              \* position of the URL loop in passages (1-based)
    url_snippets,
    seen_urls,
    fetch_calls,      \* the URLs _fetch_url_snippet was called with, in order
    fetch_results,    \* what each of those calls returned, in the same order
    fetch_replies,    \* what requests.get did in each of those calls
    net_requests,     \* the URLs for which a request went out on the network
    context,
    prompt,
    google_reply,     \* what the Gemini call did
    ollama_reply,     \* what the Ollama call did
    google_response,
    google_raw,
    ollama_response,
    ollama_raw,
    result,           \* the dict generate_detailed_response returned
    http_status       \* the status /api/chat answered with (0: none yet)

fetchLog == <<fetch_calls, fetch_results, fetch_replies, net_requests>>
genVars == <<passages, idx, url_snippets, seen_urls, fetchLog, context, prompt>>
llmVars == <<google_reply, ollama_reply, google_response, google_raw,
             ollama_response, ollama_raw>>
reqVars == <<caller, user_query, retrieved_data, store_reply>>
studyVars == <<normalized, out, escaped, args>>
cfgVars == <<google_client, collection>>
vars == <<cfgVars, pc, reqVars, studyVars, genVars, llmVars, result, http_status>>

(***************************************************************************)
(* Inputs.                                                                 *)
(***************************************************************************)
Queries == {"What is FNCE 101?", "  ", ""}

\* a passage dict as _prepare_passages emits it, its id left to the caller
Passage(text, source, url, distance, img) ==
    [id |-> Absent, text |-> text, source |-> source, url |-> url,
     distance |-> distance, has_images |-> img > 0, image_count |-> img]

PassagePool ==
    { Passage("FNCE 101 is the intro course.", "catalog.pdf", None, Distance(30), 0),
      Passage("See http://a.io/fees for fees.", "fees.docx", "http://a.io/fees",
              Distance(80), 0),
      Passage("Tuition chart.", "Unknown", "http://a.io/fees", NoDistance, 2),
      Passage("Rates are at ftp://b.io/r", "rates.txt", "ftp://b.io/r", Distance(150), 0) }

SeqsUpTo(S, n) == UNION {[1..k -> S] : k \in 0..n}

\* the ids _prepare_passages gives when it skipped nothing
WithIds(ps) == [i \in 1..Len(ps) |-> [ps[i] EXCEPT !.id = PassageId(i - 1)]]

PassageLists ==
    LET raw == SeqsUpTo(PassagePool, MaxPassages)
    IN  raw \cup {WithIds(ps) : ps \in raw}

\* URL patterns up to renaming: the k-th new URL of a list is Url(k)
Url(k) == "http://u" \o ToStr(k) \o ".io"

RECURSIVE UrlPatterns(_)
UrlPatterns(n) ==
    IF n = 0 THEN {<<>>}
    ELSE LET shorter == UrlPatterns(n - 1)
             Used(us) == {us[i] : i \in 1..Len(us)}
         IN  UNION {{Append(us, k) : k \in 1..(Cardinality(Used(us)) + 1)} :
                        us \in {u \in shorter : Len(u) = n - 1}}
             \cup shorter

UrlPassageLists ==
    {WithIds([i \in 1..Len(us) |->
                Passage("FNCE 101 is the intro course.", "catalog.pdf", Url(us[i]),
                        Distance(30), 0)]) : us \in UrlPatterns(MaxUrlPassages)}

\* retrieved_data as a caller that holds passages builds it
PassagesDict(ps) ==
    [has_passages |-> TRUE, passages |-> ps,
     documents |-> NoField, metadatas |-> NoField, distances |-> NoField]

\* retrieved_data as query_documents builds it (chromadb_setup.py)
StoreDict(docs, metas, dists) ==
    [has_passages |-> FALSE, passages |-> <<>>,
     documents |-> docs, metadatas |-> metas, distances |-> dists]

(***************************************************************************)
(* _fetch_url_snippet.  The reply is what requests.get did; the page is    *)
(* what BeautifulSoup extracted from the body (title, meta description,    *)
(* text with whitespace collapsed).                                        *)
(***************************************************************************)
MaxChars == 3000

Raised == [kind |-> "raise", status |-> 0, html |-> "", title |-> "",
           description |-> "", text |-> ""]
Http(status, html, title, description, text) ==
    [kind |-> "http", status |-> status, html |-> html, title |-> title,
     description |-> description, text |-> text]

\* requests found no connection adapter for the URL's scheme: InvalidSchema
\* (MissingSchema when there is no scheme), raised before anything is sent
InvalidSchema == [kind |-> "invalid_schema", status |-> 0, html |-> "", title |-> "",
                  description |-> "", text |-> ""]

\* what a server that was sent the request may do (Raised: connection
\* refused, or the 10 s timeout of line 120 ran out)
FetchReplies ==
    { Raised,
      Http(404, "<html>not found</html>", "", "", "not found"),
      Http(200, "", "", "", ""),
      Http(200, "<html><script>x</script></html>", "", "", ""),
      Http(200, "<html>..</html>", "Fees", "Tuition and fees", "Tuition is 100.") }

Min(a, b) == IF a < b THEN a ELSE b

\* the scheme is one requests mounts an adapter for
IsHttpUrl(url) == StartsWith(url, "http://") \/ StartsWith(url, "https://")

\* requests.get that would send whatever the scheme
requests_get_any_scheme(url) == FetchReplies

\* line 120, requests.get(url, timeout=10): what the call may do
requests_get(url) == IF IsHttpUrl(url) THEN FetchReplies ELSE {InvalidSchema}

\* the request went out on the network
Sent(reply) == reply.kind # "invalid_schema"

\* _fetch_url_snippet returning full_content whole
_fetch_url_snippet_uncapped(url, reply) ==
    IF reply.kind # "http" THEN None
    ELSE IF reply.status # 200 THEN None
    ELSE IF reply.html = "" THEN None
    ELSE LET content_parts ==
                 (IF reply.title # "" THEN <<"[PAGE TITLE] " \o reply.title>> ELSE <<>>)
                 \o (IF reply.description # ""
                     THEN <<"[META DESCRIPTION] " \o reply.description>> ELSE <<>>)
                 \o (IF reply.text # "" THEN <<"[PAGE CONTENT] " \o reply.text>> ELSE <<>>)
             full_content == JoinLines(content_parts)
         IN  IF full_content = "" THEN None ELSE full_content

_fetch_url_snippet(url, reply) ==
    IF reply.kind # "http" THEN None
    ELSE IF reply.status # 200 THEN None
    ELSE IF reply.html = "" THEN None
    ELSE LET content_parts ==
                 (IF reply.title # "" THEN <<"[PAGE TITLE] " \o reply.title>> ELSE <<>>)
                 \o (IF reply.description # ""
                     THEN <<"[META DESCRIPTION] " \o reply.description>> ELSE <<>>)
                 \o (IF reply.text # "" THEN <<"[PAGE CONTENT] " \o reply.text>> ELSE <<>>)
             full_content == JoinLines(content_parts)
         IN  IF full_content = "" THEN None
             ELSE SubSeq(full_content, 1, Min(Len(full_content), MaxChars))

(***************************************************************************)
(* generate_detailed_response: the context, the prompt, the key points and *)
(* the sections.                                                           *)
(***************************************************************************)
\* '=' * 70
Rule == "======================================================================"

\* the first position of sub in s, 0 when there is none
IndexOf(s, sub) ==
    LET at == {i \in 1..(Len(s) - Len(sub) + 1) : SubSeq(s, i, i + Len(sub) - 1) = sub}
    IN  IF at = {} THEN 0 ELSE CHOOSE i \in at : \A j \in at : i <= j

\* s.split(sep)
RECURSIVE Split(_, _)
Split(s, sep) ==
    LET i == IndexOf(s, sep)
    IN  IF i = 0 THEN <<s>>
        ELSE <<SubSeq(s, 1, i - 1)>> \o Split(SubSeq(s, i + Len(sep), Len(s)), sep)

\* [line.strip() for line in lines if line.strip().startswith("-")]
RECURSIVE Bullets(_)
Bullets(lines) ==
    IF Len(lines) = 0 THEN <<>>
    ELSE (IF StartsWith(Strip(lines[1]), "-") THEN <<Strip(lines[1])>> ELSE <<>>)
         \o Bullets(Tail(lines))

MinSentence == 20

\* [s.strip() for s in parts if s.strip() and len(s.strip()) > 20]
RECURSIVE Sentences(_)
Sentences(parts) ==
    IF Len(parts) = 0 THEN <<>>
    ELSE (IF Strip(parts[1]) # "" /\ Len(Strip(parts[1])) > MinSentence
          THEN <<Strip(parts[1])>> ELSE <<>>)
         \o Sentences(Tail(parts))

\* xs[:n]
Take(xs, n) == SubSeq(xs, 1, Min(Len(xs), n))

\* lines 529-552: one passage's block of the context (passages carry no
\* 'metadata' key, so the type is 'unknown' and no Metadata line is written)
ContextPart(p) ==
    "\n" \o Rule \o "\n[" \o p.id \o "] SOURCE: " \o p.source \o "\n"
    \o "Type: unknown | Content: " \o ToStr(Len(p.text)) \o " chars\n"
    \o (IF p.has_images
        THEN "Images: " \o ToStr(p.image_count) \o " (with vision analysis)\n" ELSE "")
    \o Rule \o "\n" \o p.text

\* lines 555-556
UrlPart(i, item) ==
    "\n" \o Rule \o "\n[URL" \o ToStr(i) \o "] (" \o item.url \o ")\n" \o Rule \o "\n"
    \o item.text

\* lines 525-552 only: the context without the URL blocks
BuildContextTextNoUrls(ps, snippets) ==
    JoinLines([i \in 1..Len(ps) |-> ContextPart(ps[i])])

\* lines 525-558
BuildContextText(ps, snippets) ==
    JoinLines([i \in 1..Len(ps) |-> ContextPart(ps[i])]
              \o [i \in 1..Len(snippets) |-> UrlPart(i, snippets[i])])

MinContext == 50

\* lines 577-610
BuildPromptText(ctx, q) ==
    "You are a finance expert assistant with access to comprehensive documents.\n\n"
    \o "IMPORTANT INSTRUCTIONS:\n"
    \o "3. Reference specific passages (P1, P2, etc.) in your answer\n\n"
    \o "FULL DOCUMENT CONTENT:\n" \o ctx \o "\n\n"
    \o "USER QUESTION: " \o q \o "\n\n"
    \o "REQUIREMENTS:\n- Answer based ONLY on the provided documents and context\n\n"
    \o "ANSWER FORMAT:\n## MAIN ANSWER\n[Comprehensive answer with all details]\n\n"
    \o "## KEY DETAILS\n- Detail 1 (with source reference)\n\n"
    \o "## SOURCES USED\n[List which passages were used]\n"

(***************************************************************************)
(* _build_prompt.  The bullet, check-mark and camera characters of the     *)
(* source text are written here as "*", "(on)" and "IMAGES".               *)
(***************************************************************************)
MaxPromptPassages == 12
MaxPassageChars == 1200
MaxUrlChars == 1500

\* the cut applied from n characters on
ClipFrom(text, n) == IF Len(text) >= n THEN SubSeq(text, 1, n) \o " ..." ELSE text

\* snippet[:n] + " ..." when the snippet is longer than n
Clip(text, n) == IF Len(text) > n THEN SubSeq(text, 1, n) \o " ..." ELSE text

\* lines 186-192
NoInformationPrompt(q) ==
    "You are a finance-focused assistant.\n"
    \o "No supporting passages or URLs were retrieved from the knowledge base.\n\n"
    \o "USER QUESTION:\n" \o q \o "\n\n"
    \o "Explain that the system has no indexed information relevant to this question "
    \o "and politely ask the user to upload documents or provide URLs."

\* lines 196-211
GroundingRules ==
    "You are a **strict finance-focused RAG assistant**.\n"
    \o "You MUST answer the user's question using **only** the information found in:\n"
    \o "  * the uploaded document passages (labelled P1, P2, ...), and\n"
    \o "  * the URL page snippets (labelled URL1, URL2, ...).\n\n"
    \o "IMPORTANT - VISION SUPPORT ENABLED (on):\n"
    \o "  * Some passages may include extracted image descriptions and OCR text\n"
    \o "  * These are marked with [IMAGE ANALYSIS] or [MULTIMODAL]\n"
    \o "  * Use this information as part of your answer\n\n"
    \o "Rules (VERY IMPORTANT):\n"
    \o "1. Every factual statement in your answer MUST be supported by at least one passage ID "
    \o "   or URL label. Do **not** rely on outside knowledge.\n"
    \o "2. If the documents and URLs do not contain enough information, clearly say so.\n"
    \o "3. Be detailed and specific: quote or closely paraphrase the relevant text.\n"
    \o "4. Focus on finance, accounting, investments, and business topics when relevant.\n"

\* lines 245-256
OutputFormat ==
    "\nReturn your answer in **this exact markdown structure**:\n\n"
    \o "## ANSWER\n"
    \o "...a detailed answer grounded ONLY in the passages and URLs above...\n\n"
    \o "## KEY POINTS\n"
    \o "- point 1 (mention which passage IDs / URL labels you used)\n"
    \o "- point 2 (mention which passage IDs / URL labels you used)\n"
    \o "- point 3 (mention which passage IDs / URL labels you used)\n\n"
    \o "## CITED SOURCES\n"
    \o "- P1, URL1: very short snippet or description\n"
    \o "- P3: very short snippet or description\n"

\* lines 219-232: one passage's block
PromptPassage(p) ==
    "[" \o p.id \o "] (source file: " \o p.source \o ", url: "
    \o Or(p.url, "None") \o ")"
    \o (IF p.has_images THEN " [IMAGES: " \o ToStr(p.image_count) \o "]" ELSE "")
    \o "\n" \o Clip(Strip(p.text), MaxPassageChars) \o "\n"

\* lines 237-243: one URL snippet's block
PromptUrl(i, item) ==
    "[URL" \o ToStr(i) \o "] (" \o item.url \o ")\n"
    \o Clip(item.text, MaxUrlChars) \o "\n"

\* lines 194-258: the main template
MainPrompt(q, ps, snippets) ==
    JoinLines(
        <<GroundingRules, "\nUSER QUESTION:\n" \o q \o "\n">>
        \o (IF Len(ps) > 0
            THEN <<"\n=== DOCUMENT PASSAGES (from uploaded files) ===\n">>
                 \o [i \in 1..Min(Len(ps), MaxPromptPassages) |-> PromptPassage(ps[i])]
            ELSE <<>>)
        \o (IF Len(snippets) > 0
            THEN <<"\n=== URL PAGE CONTENT (external pages) ===\n">>
                 \o [i \in 1..Len(snippets) |-> PromptUrl(i, snippets[i])]
            ELSE <<>>)
        \o <<OutputFormat>>)

\* _build_prompt without the early return of lines 185-192
_build_prompt_main_only(q, ps, snippets) == MainPrompt(q, ps, snippets)

\* _build_prompt(user_query, passages, url_snippets)
_build_prompt(q, ps, snippets) ==
    IF Len(ps) = 0 /\ Len(snippets) = 0 THEN NoInformationPrompt(q)
    ELSE MainPrompt(q, ps, snippets)

MaxKeyPoints == 5

\* lines 664-674
KeyPoints(main_response) ==
    IF ~Truthy(main_response) THEN <<>>
    ELSE IF Contains(main_response, "## KEY DETAILS")
    THEN Bullets(Split(Split(Split(main_response, "## KEY DETAILS")[2], "##")[1], "\n"))
    ELSE Take(Sentences(Split(main_response, ".")), MaxKeyPoints)

(***************************************************************************)
(* _extract_key_points_from_answer.                                        *)
(***************************************************************************)
\* str.upper() for one character (ASCII letters)
UpperChar(c) ==
    LET i == IndexOf("abcdefghijklmnopqrstuvwxyz", c)
    IN  IF i = 0 THEN c ELSE SubSeq("ABCDEFGHIJKLMNOPQRSTUVWXYZ", i, i)

RECURSIVE Upper(_)
Upper(s) == IF Len(s) = 0 THEN s ELSE UpperChar(SubSeq(s, 1, 1)) \o Upper(SubSeq(s, 2, Len(s)))

\* s.upper().startswith(pre), pre in upper case
UpperStartsWith(s, pre) == Len(s) >= Len(pre) /\ Upper(SubSeq(s, 1, Len(pre))) = pre

\* str.splitlines() for "\n" line ends: no empty last line after a final "\n"
SplitLines(s) ==
    IF s = "" THEN <<>>
    ELSE LET parts == Split(s, "\n")
         IN  IF parts[Len(parts)] = "" THEN SubSeq(parts, 1, Len(parts) - 1) ELSE parts

\* lines 355-369: the bullets of the "## KEY POINTS" section
RECURSIVE SectionBullets(_, _)
SectionBullets(lines, in_section) ==
    IF Len(lines) = 0 THEN <<>>
    ELSE LET stripped == Strip(lines[1])
             point == Strip(SubSeq(stripped, 3, Len(stripped)))
         IN  IF UpperStartsWith(stripped, "## KEY POINTS")
             THEN SectionBullets(Tail(lines), TRUE)
             ELSE IF in_section /\ UpperStartsWith(stripped, "## ") THEN <<>>
             ELSE IF /\ in_section
                     /\ StartsWith(stripped, "- ") \/ StartsWith(stripped, "* ")
                     /\ point # ""
             THEN <<point>> \o SectionBullets(Tail(lines), in_section)
             ELSE SectionBullets(Tail(lines), in_section)

MaxFallbackPoints == 5

\* lines 371-378: the first lines that are neither empty nor headings
RECURSIVE PlainLines(_, _)
PlainLines(lines, room) ==
    IF Len(lines) = 0 \/ room = 0 THEN <<>>
    ELSE LET stripped == Strip(lines[1])
         IN  IF stripped = "" \/ StartsWith(stripped, "#")
             THEN PlainLines(Tail(lines), room)
             ELSE <<stripped>> \o PlainLines(Tail(lines), room - 1)

\* _extract_key_points_from_answer(answer_text)
_extract_key_points_from_answer(answer_text) ==
    LET lines == SplitLines(answer_text)
        key_points == SectionBullets(lines, FALSE)
    IN  IF Len(key_points) > 0 THEN key_points
        ELSE PlainLines(lines, MaxFallbackPoints)

MaxSections == 5
HighDistance == 60
MediumDistance == 100

\* lines 390-396 with < in place of <=
RelevanceExclusive(distance) ==
    IF ~distance.isnum THEN "unknown"
    ELSE IF distance.v < HighDistance THEN "high"
    ELSE IF distance.v < MediumDistance THEN "medium"
    ELSE "low"

\* lines 388-396
Relevance(distance) ==
    IF ~distance.isnum THEN "unknown"
    ELSE IF distance.v <= HighDistance THEN "high"
    ELSE IF distance.v <= MediumDistance THEN "medium"
    ELSE "low"

\* _build_sections_from_passages with the content cut like a prompt snippet
_build_sections_clipped(ps) ==
    [i \in 1..Min(Len(ps), MaxSections) |->
        [title |-> "Relevant Passage " \o ToStr(i),
         source_file |-> ps[i].source,
         url |-> ps[i].url,
         relevance |-> Relevance(ps[i].distance),
         content |-> SubSeq(ps[i].text, 1, Min(Len(ps[i].text), 1200)),
         has_images |-> ps[i].has_images,
         image_count |-> ps[i].image_count]]

_build_sections_from_passages(ps) ==
    [i \in 1..Min(Len(ps), MaxSections) |->
        [title |-> "Relevant Passage " \o ToStr(i),
         source_file |-> ps[i].source,
         url |-> ps[i].url,
         relevance |-> Relevance(ps[i].distance),
         content |-> ps[i].text,
         has_images |-> ps[i].has_images,
         image_count |-> ps[i].image_count]]

(***************************************************************************)
(* The collaborators' replies.                                             *)
(***************************************************************************)
CloudAnswer ==
    "## MAIN ANSWER\nFNCE 101 is the intro course (P1).\n\n"
    \o "## KEY DETAILS\n- Intro course (P1)\n- No prerequisites (P1)\n\n"
    \o "## SOURCES USED\nP1"
\* an answer in the structure _build_prompt asks for
PointsAnswer ==
    "## ANSWER\nFNCE 101 is the intro course (P1).\n\n"
    \o "## KEY POINTS\n- Intro course (P1)\n* No prerequisites (P1)\n\n"
    \o "## CITED SOURCES\n- P1: catalog"
LocalAnswer == "FNCE 101 is the introductory finance course. It has no prerequisites listed."

NotCalled == [kind |-> "not_called", status |-> 0, text |-> ""]

\* the timeouts the two backend calls are given: generate_content gets none
\* (lines 622-625, and the client of line 28 is built without one);
\* requests.post gets timeout=120 (line 650)
NoTimeout == 0
GoogleTimeout == NoTimeout
OllamaTimeout == 120

\* a backend that accepts the request and never answers
Silent == [kind |-> "silent", status |-> 0, text |-> ""]
\* the call never returned
Hung == [kind |-> "hung", status |-> 0, text |-> ""]
TimedOut == [kind |-> "raise", status |-> 0, text |-> "Read timed out."]

\* what the caller gets of a reply when it waits with this timeout: a silent
\* backend is a Timeout exception, or no return at all without a timeout
Awaited(reply, timeout) ==
    IF reply.kind # "silent" THEN reply
    ELSE IF timeout = NoTimeout THEN Hung ELSE TimedOut

\* google_client.models.generate_content: it raises, or returns a falsy
\* response, or a response whose .text is a string or None
GoogleReplies ==
    { [kind |-> "raise", status |-> 0, text |-> "429 quota exceeded"],
      [kind |-> "falsy", status |-> 0, text |-> ""],
      [kind |-> "text", status |-> 0, text |-> CloudAnswer],
      [kind |-> "text", status |-> 0, text |-> PointsAnswer],
      [kind |-> "text", status |-> 0, text |-> ""],
      [kind |-> "text", status |-> 0, text |-> None],
      Silent }

\* requests.post to Ollama: it raises (connection refused, timeout, a body
\* that is not JSON), or answers with a status and, for 200, a JSON body
\* whose "response" is a string or is missing
OllamaReplies ==
    { [kind |-> "raise", status |-> 0, text |-> ""],
      [kind |-> "http", status |-> 500, text |-> ""],
      [kind |-> "http", status |-> 200, text |-> LocalAnswer],
      [kind |-> "http", status |-> 200, text |-> ""],
      [kind |-> "http", status |-> 200, text |-> Absent],
      Silent }

\* query_documents (chromadb_setup.py): the three lists of the first group,
\* or three empty lists when the query raised
n_results == 5

StoreTexts == {"FNCE 101 is the intro course.", "See http://a.io/fees for fees.", "  "}

ListField(items) == IF Len(items) = 0 THEN Field("none", <<>>) ELSE Field("flat", items)

StoreResult(texts) ==
    StoreDict(ListField([i \in 1..Len(texts) |-> StrDoc(texts[i])]),
              ListField([i \in 1..Len(texts) |->
                            MetaDict("catalog.pdf", Absent, Absent, Absent, 0)]),
              ListField([i \in 1..Len(texts) |-> RawDist(30 * i)]))

query_documents(texts, raised) ==
    IF raised THEN StoreResult(<<>>) ELSE StoreResult(texts)

(***************************************************************************)
(* Init and the actions.                                                   *)
(***************************************************************************)
NoResult == [returned |-> FALSE]

\* nothing has run yet; the arguments of the function that will run are
\* set by each Init
InitRest ==
    /\ caller = "none"
    /\ store_reply = "not_called"
    /\ normalized = <<>>
    /\ out = <<>>
    /\ escaped = FALSE
    /\ idx = 0
    /\ seen_urls = {}
    /\ fetch_calls = <<>>
    /\ fetch_results = <<>>
    /\ fetch_replies = <<>>
    /\ net_requests = <<>>
    /\ context = ""
    /\ prompt = ""
    /\ google_reply = NotCalled
    /\ ollama_reply = NotCalled
    /\ google_response = ""
    /\ google_raw = ""
    /\ ollama_response = ""
    /\ ollama_raw = ""
    /\ result = NoResult
    /\ http_status = 0

InitRequest ==
    /\ user_query = ""
    /\ passages = <<>>
    /\ url_snippets = <<>>
    /\ args = <<>>
    /\ InitRest

Init ==
    /\ google_client \in BOOLEAN
    /\ collection \in BOOLEAN
    /\ pc = "idle"
    /\ retrieved_data = StoreResult(<<>>)
    /\ InitRequest

\* app.py chat, line 148: `if not user_query` on the stripped message
IsEmptyQueryUnstripped(message) == message = ""

IsEmptyQuery(message) == Strip(message) = ""

\* app.py chat, lines 136-172: up to the call of generate_detailed_response
ChatRequest ==
    /\ pc = "idle"
    /\ \E message \in Queries, texts \in SeqsUpTo(StoreTexts, Min(MaxDocs, n_results)),
          raised \in BOOLEAN :
          /\ caller' = "chat"
          /\ user_query' = Strip(message)
          /\ IF IsEmptyQuery(message)
             THEN /\ http_status' = 400
                  /\ pc' = "responded"
                  /\ UNCHANGED <<retrieved_data, store_reply>>
             ELSE IF ~collection
             THEN /\ http_status' = 500
                  /\ pc' = "responded"
                  /\ UNCHANGED <<retrieved_data, store_reply>>
             ELSE /\ retrieved_data' = query_documents(texts, raised)
                  /\ store_reply' = IF raised THEN "raise" ELSE "ok"
                  /\ pc' = "generate"
                  /\ UNCHANGED http_status
    /\ UNCHANGED <<cfgVars, studyVars, genVars, llmVars, result>>

\* a caller that hands generate_detailed_response a list of passages
DirectCall ==
    /\ pc = "idle"
    /\ \E ps \in PassageLists :
          retrieved_data' = PassagesDict(ps)
    /\ caller' = "direct"
    /\ user_query' = "What is FNCE 101?"
    /\ UNCHANGED store_reply
    /\ pc' = "generate"
    /\ UNCHANGED <<cfgVars, studyVars, genVars, llmVars, result, http_status>>

\* lines 490-512: take the passages, give an id to each that has none
AssignIds ==
    /\ pc = "generate"
    /\ LET got == IF retrieved_data.has_passages THEN retrieved_data.passages ELSE <<>>
       IN  passages' = [i \in 1..Len(got) |->
                          IF got[i].id = Absent
                          THEN [got[i] EXCEPT !.id = PassageId(i - 1)] ELSE got[i]]
    /\ url_snippets' = <<>>
    /\ seen_urls' = {}
    /\ idx' = 1
    /\ pc' = "fetch"
    /\ UNCHANGED <<cfgVars, reqVars, studyVars, fetchLog, context, prompt, llmVars,
                   result, http_status>>

\* lines 516-519: the call of _fetch_url_snippet and what the loop keeps of it
FetchTurn(url, reply) ==
    LET snippet == _fetch_url_snippet(url, reply)
    IN  /\ fetch_calls' = Append(fetch_calls, url)
        /\ fetch_results' = Append(fetch_results, snippet)
        /\ fetch_replies' = Append(fetch_replies, reply.kind)
        /\ net_requests' = IF Sent(reply) THEN Append(net_requests, url)
                           ELSE net_requests
        /\ IF Truthy(snippet)
           THEN /\ url_snippets' =
                      Append(url_snippets, [url |-> url, text |-> snippet])
                /\ seen_urls' = seen_urls \cup {url}
           ELSE UNCHANGED <<url_snippets, seen_urls>>

\* lines 514-521: one turn of the URL loop
FetchStep ==
    /\ pc = "fetch"
    /\ idx <= Len(passages)
    /\ LET url == passages[idx].url
       IN  IF Truthy(url) /\ url \notin seen_urls
           THEN \E reply \in requests_get(url) : FetchTurn(url, reply)
           ELSE UNCHANGED <<fetchLog, url_snippets, seen_urls>>
    /\ idx' = idx + 1
    /\ UNCHANGED <<cfgVars, pc, reqVars, studyVars, passages, context, prompt, llmVars,
                   result, http_status>>

\* the result carrying the first passage only
ResultPassagesFirst(ps) == Take(ps, 1)

\* lines 569 and 692: "passages": passages
ResultPassages(ps) == ps

\* lines 525-612: the context; the early return when it is too short; the prompt
BuildContext ==
    /\ pc = "fetch"
    /\ idx > Len(passages)
    /\ LET ctx == BuildContextText(passages, url_snippets)
       IN  IF ctx = "" \/ Len(ctx) < MinContext
           THEN /\ result' =
                      [returned |-> TRUE,
                       main_response |->
                           "I don't have enough information to answer this question. "
                           \o "Please upload documents.",
                       key_points |-> <<>>,
                       passages |-> ResultPassages(passages),
                       sections |-> <<>>,
                       google_raw |-> "",
                       ollama_raw |-> "",
                       model_used |-> "none",
                       full_context |-> "",
                       retrieved_count |-> Len(passages)]
                /\ context' = ctx
                /\ pc' = "returned"
                /\ UNCHANGED prompt
           ELSE /\ context' = ctx
                /\ prompt' = BuildPromptText(ctx, user_query)
                /\ pc' = "google"
                /\ UNCHANGED result
    /\ UNCHANGED <<cfgVars, reqVars, studyVars, passages, idx, url_snippets, seen_urls,
                   fetchLog, llmVars, http_status>>

\* lines 615-634: the Gemini call
CallGoogle ==
    /\ pc = "google"
    /\ IF google_client
       THEN \E sent \in GoogleReplies :
               LET reply == Awaited(sent, GoogleTimeout)
               IN  /\ google_reply' = reply
                   /\ CASE reply.kind = "hung" ->
                             \* generate_content does not return
                             /\ pc' = "blocked"
                             /\ UNCHANGED <<google_response, google_raw>>
                        [] reply.kind = "raise" ->
                             \* the except branch; google_raw keeps its ""
                             /\ google_response' = "Error: " \o reply.text
                             /\ google_raw' = ""
                             /\ pc' = "ollama"
                        [] reply.kind = "falsy" ->
                             /\ google_response' = ""
                             /\ google_raw' = ""
                             /\ pc' = "ollama"
                        [] reply.kind = "text" /\ reply.text # None ->
                             /\ google_response' = reply.text
                             /\ google_raw' = reply.text
                             /\ pc' = "ollama"
                        [] OTHER ->
                             \* response.text is None: both are assigned None, then
                             \* len(None) raises inside the try
                             /\ google_response' =
                                    "Error: object of type 'NoneType' has no len()"
                             /\ google_raw' = None
                             /\ pc' = "ollama"
       ELSE /\ google_reply' = NotCalled
            /\ google_response' = "Google API not configured"
            /\ google_raw' = ""
            /\ pc' = "ollama"
    /\ UNCHANGED <<cfgVars, reqVars, studyVars, genVars, ollama_reply, ollama_response,
                   ollama_raw, result, http_status>>

\* lines 636-659: the Ollama call
CallOllama ==
    /\ pc = "ollama"
    /\ \E sent \in OllamaReplies :
          LET reply == Awaited(sent, OllamaTimeout)
          IN  /\ ollama_reply' = reply
              /\ IF reply.kind = "hung"
                 THEN /\ pc' = "blocked"
                      /\ UNCHANGED <<ollama_response, ollama_raw>>
                 ELSE /\ pc' = "reconcile"
                      /\ IF reply.kind = "http" /\ reply.status = 200
                         THEN \* r.json().get("response", "")
                              LET got == IF reply.text = Absent THEN "" ELSE reply.text
                              IN  /\ ollama_response' = got
                                  /\ ollama_raw' = got
                         ELSE /\ ollama_response' = ""
                              /\ ollama_raw' = ""
    /\ UNCHANGED <<cfgVars, reqVars, studyVars, genVars, google_reply, google_response,
                   google_raw, result, http_status>>

NoResponseText == "No response generated"

\* line 662 without its last alternative
MainResponseNoDefault(g, o) == Or(g, o)

\* line 662
MainResponse(g, o) == Or(g, Or(o, NoResponseText))

\* line 677
ModelUsed(g, o) == IF Truthy(g) THEN "google" ELSE IF Truthy(o) THEN "ollama" ELSE "none"

\* lines 661-697: choose the answer and build the result
Reconcile ==
    /\ pc = "reconcile"
    /\ LET main_response == MainResponse(google_response, ollama_response)
       IN  result' =
               [returned |-> TRUE,
                main_response |-> main_response,
                key_points |-> KeyPoints(main_response),
                sections |-> _build_sections_from_passages(passages),
                google_raw |-> google_raw,
                ollama_raw |-> ollama_raw,
                model_used |-> ModelUsed(google_response, ollama_response),
                passages |-> ResultPassages(passages),
                url_summaries |-> url_snippets,
                full_context |-> context,
                retrieved_count |-> Len(passages),
                total_context_chars |-> Len(context)]
    /\ pc' = "returned"
    /\ UNCHANGED <<cfgVars, reqVars, studyVars, genVars, llmVars, http_status>>

\* app.py chat, lines 183-203: the 200 answer built from the result
ChatRespond ==
    /\ pc = "returned"
    /\ caller = "chat"
    /\ http_status' = 200
    /\ pc' = "responded"
    /\ UNCHANGED <<cfgVars, reqVars, studyVars, genVars, llmVars, result>>

Next ==
    \/ ChatRequest
    \/ DirectCall
    \/ AssignIds
    \/ FetchStep
    \/ BuildContext
    \/ CallGoogle
    \/ CallOllama
    \/ Reconcile
    \/ ChatRespond

Spec == Init /\ [][Next]_vars

(***************************************************************************)
(* The URL-fetching study: generate_detailed_response on lists of up to    *)
(* MaxUrlPassages passages that differ by their URL, with no Gemini key.   *)
(***************************************************************************)
InitUrl ==
    /\ google_client = FALSE
    /\ collection = TRUE
    /\ pc = "idle"
    /\ retrieved_data = StoreResult(<<>>)
    /\ InitRequest

DirectCallUrls ==
    /\ pc = "idle"
    /\ \E ps \in UrlPassageLists :
          retrieved_data' = PassagesDict(ps)
    /\ caller' = "direct"
    /\ user_query' = "What is FNCE 101?"
    /\ UNCHANGED store_reply
    /\ pc' = "generate"
    /\ UNCHANGED <<cfgVars, studyVars, genVars, llmVars, result, http_status>>

NextUrl ==
    \/ DirectCallUrls
    \/ AssignIds
    \/ FetchStep
    \/ BuildContext
    \/ CallGoogle
    \/ CallOllama
    \/ Reconcile

SpecUrl == InitUrl /\ [][NextUrl]_vars

(***************************************************************************)
(* The normaliser study: _prepare_passages on raw vector-store results.    *)
(***************************************************************************)
RawDocs ==
    { StrDoc(""),
      StrDoc("  \n"),
      StrDoc("FNCE 101 is the intro course."),
      StrDoc(" See http://a.io/fees for fees. "),
      NoneDoc,
      NumDoc(42),
      ListDoc(<<"Part one.", "", "part two">>) }

\* a list of documents as a field: a list whose first element is itself a
\* list is taken for a group, and that first element becomes the documents
DocsField(docs) ==
    IF Len(docs) = 0 THEN Field("none", <<>>)
    ELSE IF docs[1].t = "list"
    THEN Field("nested", [i \in 1..Len(docs[1].parts) |-> StrDoc(docs[1].parts[i])])
    ELSE Field("flat", docs)

RawMeta(i) ==
    CASE i = 1 -> MetaDict("catalog.pdf", Absent, Absent, Absent, 0)
      [] i = 2 -> MetaDict(Absent, "fees.docx", "", "http://m.io/fees", 2)
      [] i = 3 -> NotADict
      [] OTHER -> MetaDict(Absent, Absent, "http://m.io/u", Absent, 0)

\* a metadata dict with every key of lines 88-89
FullMeta == MetaDict("catalog.pdf", "old.pdf", "http://m.io/cat", "http://m.io/src", 1)

RawDistance(i) == IF i = 2 THEN BadDist ELSE RawDist(30 * i)

\* the metadatas / distances that may come with n documents: missing,
\* one entry only, or one entry per document
MetaFields(n) ==
    {NoField} \cup {ListField([i \in 1..k |-> RawMeta(i)]) : k \in {Min(n, 1), n}}
              \cup {ListField([i \in 1..n |-> FullMeta])}
DistFields(n) ==
    {NoField} \cup {ListField([i \in 1..k |-> RawDistance(i)]) : k \in {Min(n, 1), n}}

Grouped(field) == IF field.shape = "flat" THEN Field("nested", field.items) ELSE field

\* `not doc`: None and "" are falsy
FalsyDoc(doc) == doc.t = "none" \/ (doc.t = "str" /\ doc.v = "")

\* the field holds its one item bare, not in a list (a metadata dict or a
\* distance of the inputs is never falsy)
Bare(field) ==
    IF field.shape = "flat" /\ Len(field.items) = 1
    THEN Field("scalar", field.items) ELSE field

\* a bare document; line 61 replaces a falsy one by []
BareDoc(field) ==
    IF field.shape = "flat" /\ Len(field.items) = 1 /\ FalsyDoc(field.items[1])
    THEN Field("none", <<>>) ELSE Bare(field)

\* a raw result: the three fields flat, or each wrapped in one group, or
\* each one bare item
RawResult(docs, m, d, shape) ==
    CASE shape = "nested" -> StoreDict(Grouped(DocsField(docs)), Grouped(m), Grouped(d))
      [] shape = "bare" -> StoreDict(BareDoc(DocsField(docs)), Bare(m), Bare(d))
      [] OTHER -> StoreDict(DocsField(docs), m, d)

InitPrepare ==
    /\ google_client = FALSE
    /\ collection = TRUE
    /\ pc = "raw"
    /\ \E docs \in SeqsUpTo(RawDocs, MaxDocs), shape \in {"flat", "nested", "bare"} :
          \E m \in MetaFields(Len(docs)), d \in DistFields(Len(docs)) :
             retrieved_data = RawResult(docs, m, d, shape)
    /\ InitRequest

\* one call of _prepare_passages
Normalize ==
    /\ pc = "raw"
    /\ escaped' = PrepareRaises(retrieved_data)
    /\ normalized' = IF PrepareRaises(retrieved_data) THEN <<>>
                     ELSE _prepare_passages(retrieved_data)
    /\ pc' = "normalized"
    /\ UNCHANGED <<cfgVars, reqVars, out, args, genVars, llmVars, result, http_status>>

NextPrepare == Normalize

SpecPrepare == InitPrepare /\ [][NextPrepare]_vars


(***************************************************************************)
(* The prompt study: _build_prompt on passages as _prepare_passages emits  *)
(* them and URL snippets as the URL loop collects them.                    *)
(***************************************************************************)
SnippetPool ==
    { [url |-> "http://a.io/fees",
       text |-> "[PAGE TITLE] Fees\n[PAGE CONTENT] Tuition is 100."],
      [url |-> "https://c.io/aid", text |-> "[PAGE CONTENT] Aid is need-based."] }

\* texts of exactly 1200, 1201, 1500 and 1501 characters; the character
\* past the cut is "#"
Text1200 == Repeat("0123456789", 120)
Text1201 == Text1200 \o "#"
Text1500 == Repeat("0123456789", 150)
Text1501 == Text1500 \o "#"

\* the i-th passage of a long list: its own source, a text on one side of
\* the passage cut or a short one, a URL and images on every fourth
LongListPassage(i) ==
    Passage(CASE i % 3 = 1 -> Text1201
              [] i % 3 = 2 -> Text1200
              [] OTHER -> "FNCE 101 is the intro course.",
            "doc" \o ToStr(i) \o ".pdf",
            IF i % 4 = 0 THEN "http://a.io/fees" ELSE None,
            Distance(30 + i),
            IF i % 4 = 0 THEN 2 ELSE 0)

\* snippet lists as the URL loop collects them, with texts on either side
\* of the URL cut
LongSnippetLists ==
    LET long == [url |-> "https://c.io/aid", text |-> Text1501]
        full == [url |-> "http://a.io/fees", text |-> Text1500]
        short == [url |-> "http://b.io/rates",
                  text |-> "[PAGE CONTENT] Rates are listed yearly."]
    IN  {<<>>, <<long>>, <<long, full>>, <<full, short, long>>}

\* short lists and lists around the passage cap
LongListLengths == (0..2) \cup ((MaxPromptList - 2)..MaxPromptList)

\* no snippet, one, and two in either order
SnippetLists ==
    {<<>>} \cup {<<a>> : a \in SnippetPool}
           \cup UNION {{<<a, b>> : b \in SnippetPool \ {a}} : a \in SnippetPool}

InitPrompt ==
    /\ google_client = FALSE
    /\ collection = TRUE
    /\ pc = "prompt_args"
    /\ retrieved_data = StoreResult(<<>>)
    /\ \/ /\ user_query \in {"What is FNCE 101?", "fees?"}
          /\ passages \in {WithIds(ps) : ps \in SeqsUpTo(PassagePool, MaxPassages)}
          /\ url_snippets \in SnippetLists
       \/ /\ user_query = "fees?"
          /\ \E n \in LongListLengths :
                passages = WithIds([i \in 1..n |-> LongListPassage(i)])
          /\ url_snippets \in LongSnippetLists
    /\ args = <<>>
    /\ InitRest

\* one call of _build_prompt
BuildPrompt ==
    /\ pc = "prompt_args"
    /\ prompt' = _build_prompt(user_query, passages, url_snippets)
    /\ pc' = "prompt_built"
    /\ UNCHANGED <<cfgVars, reqVars, studyVars, passages, idx, url_snippets, seen_urls,
                   fetchLog, context, llmVars, result, http_status>>

NextPrompt == BuildPrompt

SpecPrompt == InitPrompt /\ [][NextPrompt]_vars

(***************************************************************************)
(* The sections study: _build_sections_from_passages on passages whose     *)
(* distances lie on and around the two thresholds, or are no number.       *)
(***************************************************************************)
\* a distance that is a string: isinstance(distance, (int, float)) is False
TextDistance == [isnum |-> FALSE, v |-> 50]

StudyDistances ==
    {Distance(h) : h \in {0, 59, 60, 61, 99, 100, 101, 250}} \cup {NoDistance, TextDistance}

\* three passages told apart by every field; the nearest is not the first
\* and one text is longer than any cut of the module
LongListPool ==
    { Passage("Rates are listed yearly.", "rates.txt", None, Distance(150), 0),
      Passage(LongText, "fees.docx", "http://a.io/fees", Distance(30), 2),
      Passage("FNCE 101 is the intro course.", "catalog.pdf", None, NoDistance, 0) }

InitSections ==
    /\ google_client = FALSE
    /\ collection = TRUE
    /\ pc = "sections_args"
    /\ retrieved_data = StoreResult(<<>>)
    /\ user_query = ""
    /\ \/ \E ds \in SeqsUpTo(StudyDistances, MaxDocs) :
             passages = WithIds([i \in 1..Len(ds) |->
                           Passage("FNCE 101 is the intro course.", "catalog.pdf", None,
                                   ds[i], 0)])
       \/ \E ps \in SeqsUpTo(LongListPool, MaxLongList) : passages = WithIds(ps)
    /\ url_snippets = <<>>
    /\ args = <<>>
    /\ InitRest

\* one call of _build_sections_from_passages
BuildSections ==
    /\ pc = "sections_args"
    /\ out' = _build_sections_from_passages(passages)
    /\ pc' = "sections_built"
    /\ UNCHANGED <<cfgVars, reqVars, normalized, escaped, args, genVars, llmVars, result,
                   http_status>>

NextSections == BuildSections

SpecSections == InitSections /\ [][NextSections]_vars

(***************************************************************************)
(* The fetch study: the URL loop on one or two passages, with every reply  *)
(* of requests.get kept whole in `out`.  One site serves a page longer     *)
(* than max_chars.                                                         *)
(***************************************************************************)
LongPageUrl == "https://long.io/catalog"
LongPage == Http(200, "<html>....</html>", "Catalog", "", LongText)

\* BeautifulSoup raises on the body (no parser, a broken document)
ParseError == [kind |-> "parse_error", status |-> 200, html |-> "<html", title |-> "",
               description |-> "", text |-> ""]

\* what requests.get and the parsing may do for a URL of the study
StudyReplies(url) ==
    IF ~IsHttpUrl(url) THEN requests_get(url)
    ELSE requests_get(url) \cup {ParseError}
         \cup (IF url = LongPageUrl THEN {LongPage} ELSE {})

FetchStudyUrls == {"http://a.io/fees", LongPageUrl, "ftp://b.io/r", "a.io/fees"}

InitFetch ==
    /\ google_client = FALSE
    /\ collection = TRUE
    /\ pc = "fetch_study"
    /\ retrieved_data = StoreResult(<<>>)
    /\ user_query = ""
    /\ \E us \in SeqsUpTo(FetchStudyUrls, MaxPassages) :
          passages = WithIds([i \in 1..Len(us) |->
                        Passage("FNCE 101 is the intro course.", "catalog.pdf", us[i],
                                Distance(30), 0)])
    /\ url_snippets = <<>>
    /\ caller = "none"
    /\ store_reply = "not_called"
    /\ normalized = <<>>
    /\ out = <<>>
    /\ escaped = FALSE
    /\ args = <<>>
    /\ idx = 1
    /\ seen_urls = {}
    /\ fetch_calls = <<>>
    /\ fetch_results = <<>>
    /\ fetch_replies = <<>>
    /\ net_requests = <<>>
    /\ context = ""
    /\ prompt = ""
    /\ google_reply = NotCalled
    /\ ollama_reply = NotCalled
    /\ google_response = ""
    /\ google_raw = ""
    /\ ollama_response = ""
    /\ ollama_raw = ""
    /\ result = NoResult
    /\ http_status = 0

\* lines 514-521: one turn of the URL loop, the reply kept in `out`
FetchLogged ==
    /\ pc = "fetch_study"
    /\ idx <= Len(passages)
    /\ LET url == passages[idx].url
       IN  IF Truthy(url) /\ url \notin seen_urls
           THEN \E reply \in StudyReplies(url) :
                   /\ FetchTurn(url, reply)
                   /\ out' = Append(out, reply)
           ELSE UNCHANGED <<fetchLog, url_snippets, seen_urls, out>>
    /\ idx' = idx + 1
    /\ UNCHANGED <<cfgVars, pc, reqVars, normalized, escaped, args, passages, context,
                   prompt, llmVars, result, http_status>>

NextFetch == FetchLogged

SpecFetch == InitFetch /\ [][NextFetch]_vars

(***************************************************************************)
(* next_steps_graph.py: _basic_suggestions and run_next_steps_graph.       *)
(***************************************************************************)
\* str.lower() for one character (ASCII letters)
LowerChar(c) ==
    LET i == IndexOf("ABCDEFGHIJKLMNOPQRSTUVWXYZ", c)
    IN  IF i = 0 THEN c ELSE SubSeq("abcdefghijklmnopqrstuvwxyz", i, i)

RECURSIVE Lower(_)
Lower(s) == IF Len(s) = 0 THEN s ELSE LowerChar(SubSeq(s, 1, 1)) \o Lower(SubSeq(s, 2, Len(s)))

LongAnswer == 700
ManyKeyPoints == 4
MaxSuggestions == 5

FollowupSuggestion ==
    [label |-> "Provide follow-up question", category |-> "followup",
     reason |-> "You can get deeper insights by asking a follow-up question about any part of the answer."]
SummarySuggestion ==
    [label |-> "Request a shorter summary", category |-> "clarification",
     reason |-> "The answer is fairly detailed. A shorter summary may help you review the key ideas quickly."]
DeepDiveSuggestion ==
    [label |-> "Deep dive into one key point", category |-> "deep_dive",
     reason |-> "You can focus on one of the key topics to understand it in greater detail."]
ActionSuggestion ==
    [label |-> "Create an action plan", category |-> "action",
     reason |-> "You might want to convert these details into a concrete checklist or plan."]
ClarifySuggestion ==
    [label |-> "Ask for more clarification", category |-> "clarification",
     reason |-> "If anything in the answer is unclear, you can request further clarification."]

\* line 68: any(word in q_lower for word in [...])
MentionsAction(q_lower) ==
    \E word \in {"requirement", "requirements", "plan", "steps"} : Contains(q_lower, word)

\* _basic_suggestions with >= at line 47
_basic_suggestions_from_700(user_question, answer_text, key_points) ==
    IF answer_text = None THEN Throw(<<>>)
    ELSE LET q_lower == Lower(Or(user_question, ""))
             suggestions ==
                 <<FollowupSuggestion>>
                 \o (IF Len(answer_text) >= LongAnswer \/ Len(key_points) > ManyKeyPoints
                     THEN <<SummarySuggestion>> ELSE <<>>)
                 \o (IF Len(key_points) > 0 THEN <<DeepDiveSuggestion>> ELSE <<>>)
                 \o (IF MentionsAction(q_lower) THEN <<ActionSuggestion>> ELSE <<>>)
         IN  Ok(Take(IF Len(suggestions) = 0 THEN <<ClarifySuggestion>> ELSE suggestions,
                     MaxSuggestions))

\* _basic_suggestions; key_points is already `key_points or []`, and
\* len(answer_text) raises TypeError when answer_text is None
_basic_suggestions(user_question, answer_text, key_points) ==
    IF answer_text = None THEN Throw(<<>>)
    ELSE LET q_lower == Lower(Or(user_question, ""))
             suggestions ==
                 <<FollowupSuggestion>>
                 \o (IF Len(answer_text) > LongAnswer \/ Len(key_points) > ManyKeyPoints
                     THEN <<SummarySuggestion>> ELSE <<>>)
                 \o (IF Len(key_points) > 0 THEN <<DeepDiveSuggestion>> ELSE <<>>)
                 \o (IF MentionsAction(q_lower) THEN <<ActionSuggestion>> ELSE <<>>)
         IN  Ok(Take(IF Len(suggestions) = 0 THEN <<ClarifySuggestion>> ELSE suggestions,
                     MaxSuggestions))

\* run_next_steps_graph; a key_points of None arrives as the empty list
run_next_steps_graph(user_question, answer_text, key_points) ==
    LET got == _basic_suggestions(user_question, answer_text, key_points)
    IN  IF got.raised
        THEN [suggestions |-> <<>>, error |-> "object of type 'NoneType' has no len()"]
        ELSE [suggestions |-> got.v, error |-> None]

StudyQuestions ==
    {None, "", "Explain FNCE 101", "What are the REQUIREMENTS?", "Plan my degree",
     "Which steps come first?", "What is the first step?"}
StudyAnswers ==
    {None, "", LocalAnswer, Repeat("x", LongAnswer), Repeat("x", LongAnswer + 1)}
\* key_points: None is passed as the empty list (line 116)
StudyKeyPoints ==
    {[k \in 1..n |-> "Point " \o ToStr(k)] : n \in {0, 1, ManyKeyPoints, ManyKeyPoints + 1}}

InitNextSteps ==
    /\ google_client = FALSE
    /\ collection = TRUE
    /\ pc = "next_steps_args"
    /\ retrieved_data = StoreResult(<<>>)
    /\ user_query = ""
    /\ passages = <<>>
    /\ url_snippets = <<>>
    /\ InitRest
    /\ \E q \in StudyQuestions, a \in StudyAnswers, kp \in StudyKeyPoints :
          args = [user_question |-> q, answer_text |-> a, key_points |-> kp]

\* one call of run_next_steps_graph
NextSteps ==
    /\ pc = "next_steps_args"
    /\ out' = run_next_steps_graph(args.user_question, args.answer_text, args.key_points)
    /\ pc' = "next_steps_done"
    /\ UNCHANGED <<cfgVars, reqVars, normalized, escaped, args, genVars, llmVars, result,
                   http_status>>

NextNextSteps == NextSteps

SpecNextSteps == InitNextSteps /\ [][NextNextSteps]_vars

(***************************************************************************)
(* The store study: add_documents_to_chromadb (chromadb_setup.py) on lists *)
(* of chunks.  A chunk has a text attribute or not, and its metadata is    *)
(*   "noattr"  no metadata attribute                                       *)
(*   "falsy"   None or empty                                               *)
(*   "object"  a non-empty object with to_dict()                           *)
(*   "dict"    a non-empty plain dict, which has no to_dict()              *)
(***************************************************************************)
Chunk(has_text, text, metadata) ==
    [has_text |-> has_text, text |-> text, metadata |-> metadata]

ChunkPool ==
    {Chunk(TRUE, "FNCE 101 is the intro course.", m) :
        m \in {"noattr", "falsy", "object", "dict"}}
    \cup {Chunk(FALSE, Absent, m) : m \in {"noattr", "falsy", "object", "dict"}}

\* hasattr(chunk, 'text')
HasText(chunk) == chunk.has_text

\* lines 35-40: the metadata entry of one chunk
ChunkMetadata(chunk) ==
    IF chunk.metadata = "object" THEN [source |-> "converted"]
    ELSE [source |-> "unknown"]

\* line 37: chunk.metadata.to_dict() on a plain dict raises AttributeError
ToDictRaises(chunk) == chunk.metadata = "dict"

\* no call of collection.add
NoAdd == [called |-> FALSE, documents |-> <<>>, metadatas |-> <<>>, ids |-> <<>>]

\* add_documents_to_chromadb(collection, chunks): whether it raised, the
\* call of collection.add it made, and the count it returned
add_documents_to_chromadb(chunks) ==
    LET with_text == SelectSeq(chunks, HasText)
        doc_texts == [i \in 1..Len(with_text) |-> with_text[i].text]
        doc_ids == [i \in 1..Len(doc_texts) |-> "uuid-" \o ToStr(i)]
        doc_metadatas == [i \in 1..Len(chunks) |-> ChunkMetadata(chunks[i])]
    IN  IF \E i \in 1..Len(chunks) : ToDictRaises(chunks[i])
        THEN [raised |-> TRUE, add |-> NoAdd, returned |-> 0]
        ELSE IF Len(doc_texts) > 0
        THEN [raised |-> FALSE,
              add |-> [called |-> TRUE, documents |-> doc_texts,
                       metadatas |-> doc_metadatas, ids |-> doc_ids],
              returned |-> Len(doc_texts)]
        ELSE [raised |-> FALSE, add |-> NoAdd, returned |-> 0]

InitAdd ==
    /\ google_client = FALSE
    /\ collection = TRUE
    /\ pc = "add_args"
    /\ retrieved_data = StoreResult(<<>>)
    /\ user_query = ""
    /\ passages = <<>>
    /\ url_snippets = <<>>
    /\ InitRest
    /\ args \in SeqsUpTo(ChunkPool, MaxChunks)

\* one call of add_documents_to_chromadb
AddDocuments ==
    /\ pc = "add_args"
    /\ out' = add_documents_to_chromadb(args)
    /\ pc' = "add_done"
    /\ UNCHANGED <<cfgVars, reqVars, normalized, escaped, args, genVars, llmVars, result,
                   http_status>>

NextAdd == AddDocuments

SpecAdd == InitAdd /\ [][NextAdd]_vars

(***************************************************************************)
(* The upload study: POST /api/upload (app.py).  A submitted file is its   *)
(* name, whether file.save works, what create_comprehensive_document does  *)
(* with it ("content", "no_content", "raises") and the kind of metadata it *)
(* reports; a submitted URL is whether is_valid_url accepts it and what    *)
(* scrape_url does ("success", "failed", "raises").                        *)
(***************************************************************************)
ALLOWED_EXTENSIONS == {"pdf", "docx", "xlsx", "txt", "png", "jpg", "jpeg"}

\* filename.rsplit(".", 1)[1]; Absent stands for the IndexError
Extension(filename) ==
    LET parts == Split(filename, ".")
    IN  IF Len(parts) < 2 THEN Absent ELSE parts[Len(parts)]

\* line 55
allowed_file(filename) ==
    Contains(filename, ".") /\ Lower(Extension(filename)) \in ALLOWED_EXTENSIONS

\* the characters werkzeug's secure_filename keeps
RECURSIVE KeepSafe(_)
KeepSafe(s) ==
    IF s = "" THEN ""
    ELSE LET c == SubSeq(s, 1, 1)
             rest == KeepSafe(SubSeq(s, 2, Len(s)))
         IN  IF Contains("abcdefghijklmnopqrstuvwxyzABCDEFGHIJKLMNOPQRSTUVWXYZ0123456789_.-", c)
             THEN c \o rest
             ELSE IF c = " " THEN "_" \o rest
             ELSE rest

\* str.strip("._")
RECURSIVE StripDots(_)
StripDots(s) ==
    IF s = "" THEN s
    ELSE IF SubSeq(s, 1, 1) \in {".", "_"} THEN StripDots(SubSeq(s, 2, Len(s)))
    ELSE IF SubSeq(s, Len(s), Len(s)) \in {".", "_"} THEN StripDots(SubSeq(s, 1, Len(s) - 1))
    ELSE s

\* werkzeug.utils.secure_filename on a name without path separators
secure_filename(filename) == StripDots(KeepSafe(filename))

UploadFile(filename, save_ok, outcome, metadata) ==
    [filename |-> filename, save_ok |-> save_ok, outcome |-> outcome,
     metadata |-> metadata]

FilePool ==
    { UploadFile("fees.pdf", TRUE, "content", "falsy"),
      UploadFile("fees report.PDF", TRUE, "content", "dict"),
      UploadFile("rates.docx", TRUE, "no_content", "dict"),
      UploadFile("notes.txt", TRUE, "raises", "dict"),
      UploadFile("run.exe", TRUE, "content", "dict"),
      UploadFile("", TRUE, "content", "dict"),
      UploadFile("???.pdf", TRUE, "content", "dict"),
      UploadFile("data.xlsx", FALSE, "content", "dict") }

UploadUrl(url, valid, scrape) == [url |-> url, valid |-> valid, scrape |-> scrape]

UrlPool ==
    { UploadUrl("http://a.io/fees", TRUE, "success"),
      UploadUrl("http://b.io/rates", TRUE, "failed"),
      UploadUrl("http://c.io/aid", TRUE, "raises"),
      UploadUrl("not a url", FALSE, "failed") }

\* what the loops have gathered; crashed: an exception left the loop
Gathered(uploaded, url_count, errors, added, crashed) ==
    [uploaded |-> uploaded, url_count |-> url_count, errors |-> errors,
     added |-> added, crashed |-> crashed]

\* lines 250-320: one turn of the file loop
FileTurn(file, has_text, g) ==
    LET filename == secure_filename(file.filename)
        stored == add_documents_to_chromadb(<<Chunk(has_text, "content", file.metadata)>>)
        failed(msg) == [g EXCEPT !.errors = @ \o <<filename \o " - " \o msg>>]
    IN  IF file.filename = "" THEN g
        ELSE IF ~allowed_file(file.filename)
        THEN [g EXCEPT !.errors = @ \o <<file.filename \o " - Invalid file type">>]
        ELSE IF ~file.save_ok THEN [g EXCEPT !.crashed = TRUE]
        ELSE IF Extension(filename) = Absent THEN [g EXCEPT !.crashed = TRUE]
        ELSE IF file.outcome = "raises" THEN failed("processing error")
        ELSE IF file.outcome = "no_content" THEN failed("Processing failed - no content")
        ELSE IF stored.raised THEN failed("'dict' object has no attribute 'to_dict'")
        ELSE [g EXCEPT !.uploaded = @ \o <<filename>>, !.added = @ + stored.returned]

\* lines 323-351: one turn of the URL loop
UrlTurn(u, has_text, g) ==
    LET stored == add_documents_to_chromadb(<<Chunk(has_text, "Title", "dict")>>)
        failed(msg) == [g EXCEPT !.errors = @ \o <<u.url \o " - " \o msg>>]
    IN  IF ~u.valid THEN failed("Invalid URL")
        ELSE IF u.scrape = "raises" THEN failed("scrape error")
        ELSE IF u.scrape = "failed" THEN failed("Failed to scrape")
        ELSE IF stored.raised THEN failed("'dict' object has no attribute 'to_dict'")
        ELSE [g EXCEPT !.url_count = @ + 1, !.added = @ + stored.returned]

RECURSIVE FileLoop(_, _, _, _)
FileLoop(files, i, has_text, g) ==
    IF i > Len(files) \/ g.crashed THEN g
    ELSE FileLoop(files, i + 1, has_text, FileTurn(files[i], has_text, g))

RECURSIVE UrlLoop(_, _, _, _)
UrlLoop(urls, i, has_text, g) ==
    IF i > Len(urls) \/ g.crashed THEN g
    ELSE UrlLoop(urls, i + 1, has_text, UrlTurn(urls[i], has_text, g))

UploadReply(code, status, g) ==
    [code |-> code, status |-> status, files_uploaded |-> g.uploaded,
     urls_processed |-> g.url_count, errors |-> g.errors,
     documents_added |-> g.added]

\* upload_documents(): the reply to a request with these files and URLs
upload_documents(files, urls, has_text) ==
    LET start == Gathered(<<>>, 0, <<>>, 0, FALSE)
        g == UrlLoop(urls, 1, has_text, FileLoop(files, 1, has_text, start))
    IN  IF Len(files) = 0 /\ Len(urls) = 0 THEN UploadReply(400, Absent, start)
        ELSE IF g.crashed THEN UploadReply(500, "error", start)
        ELSE IF Len(g.uploaded) > 0 \/ g.url_count > 0 THEN UploadReply(200, "success", g)
        ELSE UploadReply(400, "error", g)

InitUpload ==
    /\ google_client = FALSE
    /\ collection = TRUE
    /\ pc = "upload_request"
    /\ retrieved_data = StoreResult(<<>>)
    /\ user_query = ""
    /\ passages = <<>>
    /\ url_snippets = <<>>
    /\ InitRest
    /\ \E files \in SeqsUpTo(FilePool, MaxUploads), urls \in SeqsUpTo(UrlPool, MaxUploads),
          has_text \in BOOLEAN :
          args = [files |-> files, urls |-> urls, has_text |-> has_text]

\* one request to /api/upload
Upload ==
    /\ pc = "upload_request"
    /\ out' = upload_documents(args.files, args.urls, args.has_text)
    /\ http_status' = out'.code
    /\ pc' = "upload_replied"
    /\ UNCHANGED <<cfgVars, reqVars, normalized, escaped, args, genVars, llmVars, result>>

NextUpload == Upload

SpecUpload == InitUpload /\ [][NextUpload]_vars

(***************************************************************************)
(* The chat UI study: chat_interface (frontend/components/chat.py).  The   *)
(* session state st.session_state is held in `out`, one action is one run  *)
(* of the script, and `args` records what the last run did.                *)
(***************************************************************************)
Message(role, content) == [role |-> role, content |-> content]

Session(messages, processing) == [messages |-> messages, processing |-> processing]

\* what send_message returned: a falsy value, or a dict with or without
\* the keys "error", "response" and "main_response"; renders is FALSE when
\* showing the answer raises
ChatReply(falsy, error, response, main_response, renders) ==
    [falsy |-> falsy, error |-> error, response |-> response,
     main_response |-> main_response, renders |-> renders]

ChatReplies ==
    { ChatReply(FALSE, Absent, "FNCE 101 is the intro course.", Absent, TRUE),
      ChatReply(FALSE, Absent, None, "Tuition is 100.", TRUE),
      ChatReply(FALSE, Absent, "FNCE 101 is the intro course.", Absent, FALSE),
      ChatReply(FALSE, Absent, "  \n", Absent, TRUE),
      ChatReply(FALSE, Absent, Absent, Absent, TRUE),
      ChatReply(FALSE, "HTTP 500", None, Absent, TRUE),
      ChatReply(TRUE, Absent, Absent, Absent, TRUE) }

\* line 265
ReplyText(reply) == Or(reply.response, Or(reply.main_response, ""))

\* how the turn of lines 252-389 ends
TurnOutcome(reply) ==
    IF reply.falsy \/ reply.error # Absent THEN "error"
    ELSE IF Strip(ReplyText(reply)) = "" THEN "empty"
    ELSE IF ~reply.renders THEN "raised"
    ELSE "answered"

\* lines 252-389 with the flag left set on an empty response
ChatTurnKeepsFlag(session, reply) ==
    CASE TurnOutcome(reply) = "answered" ->
            Session(Append(session.messages, Message("assistant", ReplyText(reply))), FALSE)
      [] TurnOutcome(reply) = "empty" -> session
      [] OTHER -> Session(session.messages, FALSE)

\* lines 252-389: the session state after the turn
ChatTurn(session, reply) ==
    CASE TurnOutcome(reply) = "answered" ->
            Session(Append(session.messages, Message("assistant", ReplyText(reply))), FALSE)
      [] OTHER -> Session(session.messages, FALSE)

InitChat ==
    /\ google_client = FALSE
    /\ collection = TRUE
    /\ pc = "chat_idle"
    /\ retrieved_data = StoreResult(<<>>)
    /\ user_query = ""
    /\ passages = <<>>
    /\ url_snippets = <<>>
    /\ normalized = <<>>
    /\ out = Session(<<>>, FALSE)
    /\ escaped = FALSE
    /\ args = [did |-> "started", reply |-> Absent]
    /\ idx = 0
    /\ seen_urls = {}
    /\ fetch_calls = <<>>
    /\ fetch_results = <<>>
    /\ fetch_replies = <<>>
    /\ net_requests = <<>>
    /\ context = ""
    /\ prompt = ""
    /\ google_reply = NotCalled
    /\ ollama_reply = NotCalled
    /\ google_response = ""
    /\ google_raw = ""
    /\ ollama_response = ""
    /\ ollama_raw = ""
    /\ result = NoResult
    /\ store_reply = "not_called"
    /\ caller = "none"
    /\ http_status = 0

chatRest ==
    <<cfgVars, reqVars, normalized, escaped, genVars, llmVars, result, http_status>>

\* a run in which the user asked: the FAQ button (lines 128-135), a
\* next-step button (207-214) or the chat input (225-231)
Ask ==
    /\ pc = "chat_idle"
    /\ Len(out.messages) < MaxMessages
    /\ \E q \in Queries \ {""} :
          out' = Session(Append(out.messages, Message("user", q)), TRUE)
    /\ args' = [did |-> "asked", reply |-> Absent]
    /\ pc' = "chat_rerun"
    /\ UNCHANGED chatRest

\* a run with no message from the user: the one st.rerun() starts, or one
\* started by a widget that appends nothing
Run ==
    /\ pc \in {"chat_idle", "chat_rerun"}
    /\ \E doc_count \in {0, 3}, reply \in ChatReplies :
          IF doc_count = 0
          THEN \* lines 103-108: return before the turn
               /\ out' = out
               /\ args' = [did |-> "no_documents", reply |-> Absent]
          ELSE IF out.processing /\ Len(out.messages) > 0
                  /\ out.messages[Len(out.messages)].role = "user"
          THEN /\ out' = ChatTurn(out, reply)
               /\ args' = [did |-> TurnOutcome(reply), reply |-> reply]
          ELSE /\ out' = out
               /\ args' = [did |-> "shown", reply |-> Absent]
    /\ pc' = "chat_idle"
    /\ UNCHANGED chatRest

\* lines 414-418: the Clear Chat button
ClearChat ==
    /\ pc = "chat_idle"
    /\ Len(out.messages) > 0
    /\ out' = Session(<<>>, FALSE)
    /\ args' = [did |-> "cleared", reply |-> Absent]
    /\ pc' = "chat_idle"
    /\ UNCHANGED chatRest

NextChat == Ask \/ Run \/ ClearChat

SpecChat == InitChat /\ [][NextChat]_vars

(***************************************************************************)
(* What the backends did, read from their replies.                         *)
(***************************************************************************)
\* generate_detailed_response returned
Returned == result.returned

\* it returned from its last statement (the backends were dispatched)
Reconciled == pc \in {"returned", "responded"} /\ result.returned /\ prompt # ""

GoogleProduced == google_reply.kind = "text" /\ Truthy(google_reply.text)
GoogleNotConfigured == ~google_client
GoogleFailed == google_reply.kind = "raise"
GoogleNoOutput == ~GoogleProduced

OllamaProduced ==
    ollama_reply.kind = "http" /\ ollama_reply.status = 200 /\ Truthy(ollama_reply.text)
OllamaFailed ==
    \/ ollama_reply.kind = "raise"
    \/ ollama_reply.kind = "http" /\ ollama_reply.status # 200
OllamaNoOutput == ~OllamaProduced

(***************************************************************************)
(* The claims.                                                             *)
(***************************************************************************)
\* C1: when neither backend produced output and at least one passage
\* exists, the result is the context-only fallback: model_used is
\* "context-only" and main_response is non-empty and quotes the first
\* passage's source name and the start of its text.
C1_ContextOnlyFallback ==
    (Reconciled /\ GoogleNoOutput /\ OllamaNoOutput /\ Len(passages) >= 1) =>
        /\ result.model_used = "context-only"
        /\ result.main_response # ""
        /\ Contains(result.main_response, passages[1].source)
        /\ Contains(result.main_response, Take(passages[1].text, 500))

\* C2: the two backend calls are isolated: when Google raised and Ollama
\* returned non-empty text, Ollama was attempted and main_response is
\* Ollama's text; when Ollama failed and Google returned non-empty text,
\* main_response is Google's text.
C2_BackendIsolation ==
    Reconciled =>
        /\ (GoogleFailed /\ OllamaProduced => result.main_response = ollama_reply.text)
        /\ (OllamaFailed /\ GoogleProduced => result.main_response = google_reply.text)
        /\ (GoogleFailed => ollama_reply # NotCalled)

\* C3: when the cloud backend produced output it is main_response whatever
\* the local backend did, and model_used has three distinct labels: one for
\* cloud only, one for local only, one for both.
C3_PrimarySelection ==
    Reconciled =>
        /\ (GoogleProduced => result.main_response = google_reply.text)
        /\ (GoogleProduced /\ OllamaProduced =>
                result.model_used \notin {ModelUsed(CloudAnswer, ""), ModelUsed("", LocalAnswer)})

\* C4: a backend that is not configured and a backend that failed both end
\* as no output: Google's raw text is empty and Google contributes nothing
\* to main_response or model_used.
C4_AbsentGoogleIsSilent ==
    (Reconciled /\ (GoogleNotConfigured \/ GoogleFailed)) =>
        /\ result.google_raw = ""
        /\ result.model_used # "google"
        /\ result.main_response = Or(ollama_response, NoResponseText)

\* C5: in one /api/chat request every non-empty document the vector store
\* returned becomes a passage that the generator sees and returns; so a
\* store result with a non-empty document gives a non-empty passage list.
C5_ChatPipeline ==
    (caller = "chat" /\ Returned) =>
        LET norm == _prepare_passages(retrieved_data)
        IN  /\ Len(result.passages) = Len(norm)
            /\ \A k \in 1..Len(norm) : result.passages[k].text = norm[k].text

\* C6: the N passages _prepare_passages emits carry the ids P1..PN in
\* retrieval order, with no gap where an empty document was skipped.
C6_IdsSequential ==
    pc = "normalized" =>
        \A k \in 1..Len(normalized) : normalized[k].id = "P" \o ToStr(k)

\* C7: within one request the URL fetcher is called at most once for each
\* distinct URL, whether the fetch succeeds or fails.
C7_FetchOncePerUrl ==
    \A i, j \in 1..Len(fetch_calls) : i # j => fetch_calls[i] # fetch_calls[j]

\* C8: within one request at most 5 distinct URLs are fetched, and the
\* fetched URLs are taken in order of first appearance among the passages.
C8_FetchCap ==
    LET FirstIn(seq, u) == CHOOSE k \in 1..Len(seq) :
                              seq[k] = u /\ \A m \in 1..(k - 1) : seq[m] # u
        urls == [k \in 1..Len(passages) |-> passages[k].url]
        called == {fetch_calls[i] : i \in 1..Len(fetch_calls)}
    IN  /\ Cardinality(called) <= 5
        /\ \A u, v \in called :
              FirstIn(fetch_calls, u) < FirstIn(fetch_calls, v) =>
                  FirstIn(urls, u) < FirstIn(urls, v)

\* C9: in every result google_raw and ollama_raw are strings, never None.
C9_RawNeverNone ==
    Returned => result.google_raw # None /\ result.ollama_raw # None

\* C10: every result has a non-empty string main_response: on the
\* too-short-context return and whichever backends answered.
C10_MainResponseNonEmpty ==
    Returned => Truthy(result.main_response)

\* C10 witness: a result built after both backends were called and neither
\* gave any text.
C10_Witness ==
    /\ Reconciled
    /\ google_reply.kind = "text"
    /\ ~Truthy(google_response)
    /\ ollama_reply.kind = "raise"
    /\ result.main_response = NoResponseText

\* C11: _prepare_passages is total.  For every raw result (keys missing,
\* lists of unequal length, documents that are not strings, metadata that
\* is not a dict, distances float() rejects) it returns a list and no
\* exception leaves it; a document whose index lies beyond a shorter
\* metadata list gets the empty metadata (source "Unknown", no images), one
\* beyond a shorter distance list gets the distance None, and so do a
\* metadata entry that is not a dict and a distance that does not parse.
C11_PrepareTotal ==
    pc = "normalized" =>
        LET docs == _flatten_chroma_field(retrieved_data.documents)
            metas == _flatten_chroma_field(retrieved_data.metadatas)
            dists == _flatten_chroma_field(retrieved_data.distances)
            kept == {i \in 1..Len(docs) : Joined(docs[i]) # ""}
        IN  /\ ~escaped
            /\ DOMAIN normalized = 1..Len(normalized)
            /\ Len(normalized) = Cardinality(kept)
            /\ \A i \in kept :
                  \E k \in 1..Len(normalized) :
                     LET p == normalized[k] IN
                     /\ p.id = PassageId(i - 1)
                     /\ (i > Len(metas) \/ ~metas[Min(i, Len(metas))].isdict) =>
                            /\ p.source = "Unknown"
                            /\ ~p.has_images /\ p.image_count = 0
                            /\ p.url \in {None, FirstUrl(p.text)}
                     /\ (i > Len(dists) \/ dists[Min(i, Len(dists))].t # "num") =>
                            p.distance = NoDistance

\* C11 witness: three documents kept, one metadata entry only, and a
\* distance list whose second entry does not parse.
C11_Witness ==
    /\ pc = "normalized"
    /\ ~escaped
    /\ Len(normalized) = 3
    /\ Len(_flatten_chroma_field(retrieved_data.metadatas)) = 1
    /\ Len(_flatten_chroma_field(retrieved_data.distances)) = 3
    /\ normalized[2].distance = NoDistance
    /\ normalized[3].source = "Unknown"

\* C12: every backend call ends: in success, in failure, or when its own
\* timeout runs out; so no request is left waiting on a backend and, once
\* dispatch has started, reconciliation is reached.  A backend that timed
\* out counts as one that gave no output.
C12_BackendCallsEnd ==
    /\ pc # "blocked"
    /\ google_reply # Hung
    /\ ollama_reply # Hung
    /\ (Reconciled /\ google_reply = TimedOut) => ~Truthy(google_response)
    /\ (Reconciled /\ ollama_reply = TimedOut) => ~Truthy(ollama_response)

\* the prompt carries the snippet of every fetch that succeeded, under the
\* labels URL1, URL2, ... in fetch order, and no URL block beyond those
PromptHasTheSnippets ==
    LET ok == {i \in 1..Len(fetch_results) : Truthy(fetch_results[i])}
    IN  /\ Len(url_snippets) = Cardinality(ok)
        /\ \A i \in ok :
              \E k \in 1..Len(url_snippets) :
                 /\ url_snippets[k] = [url |-> fetch_calls[i], text |-> fetch_results[i]]
                 /\ Contains(prompt, "[URL" \o ToStr(k) \o "] (" \o fetch_calls[i] \o ")")
                 /\ Contains(prompt, fetch_results[i])
        /\ \A k \in (Cardinality(ok) + 1)..(Len(fetch_calls) + 1) :
              ~Contains(prompt, "[URL" \o ToStr(k) \o "]")
        /\ \A i \in 1..Len(fetch_calls) :
              (\A j \in ok : fetch_calls[j] # fetch_calls[i]) =>
                  ~Contains(prompt, "(" \o fetch_calls[i] \o ")")

\* C13: within one request every URL fetch is over before the prompt is
\* built, and the prompt is built before a backend is called: no fetch
\* happens once there is a prompt, the prompt is built only after the URL
\* loop has passed the last passage and while no backend has been called,
\* a backend is called only with the finished prompt, and that prompt
\* holds exactly the snippets of the fetches that succeeded.
C13_FetchThenPromptThenBackends ==
    [][ /\ (fetchLog' # fetchLog => prompt = "" /\ prompt' = "")
        /\ (prompt' # prompt =>
               /\ idx > Len(passages)
               /\ google_reply' = NotCalled /\ ollama_reply' = NotCalled
               /\ PromptHasTheSnippets')
        /\ ((google_reply' # google_reply \/ ollama_reply' # ollama_reply) =>
               /\ prompt # "" /\ prompt' = prompt
               /\ UNCHANGED <<fetchLog, url_snippets>>) ]_vars

\* C13 witness: a backend was called with a prompt built after one fetch
\* that failed and one that succeeded.
C13_Witness ==
    /\ prompt # ""
    /\ ollama_reply # NotCalled
    /\ Len(fetch_results) = 2
    /\ ~Truthy(fetch_results[1])
    /\ Truthy(fetch_results[2])
    /\ PromptHasTheSnippets

\* C14: with no passages and no URL snippets _build_prompt returns the
\* short no-information prompt, which has no "DOCUMENT PASSAGES" marker;
\* in every other case it returns the main template, which holds the
\* grounding rules, the user's question and the output-format block.
C14_PromptBranch ==
    pc = "prompt_built" =>
        /\ Contains(prompt, "USER QUESTION:\n" \o user_query \o "\n")
        /\ IF Len(passages) = 0 /\ Len(url_snippets) = 0
           THEN /\ Contains(prompt, "No supporting passages or URLs were retrieved")
                /\ ~Contains(prompt, "DOCUMENT PASSAGES")
                /\ ~Contains(prompt, "Rules (VERY IMPORTANT)")
                /\ ~Contains(prompt, "Return your answer in")
                /\ Len(prompt) < Len(GroundingRules)
           ELSE /\ ~Contains(prompt, "No supporting passages or URLs were retrieved")
                /\ Contains(prompt, "Rules (VERY IMPORTANT):\n1. Every factual statement")
                /\ Contains(prompt, "Return your answer in **this exact markdown structure**")
                /\ Contains(prompt, "## ANSWER\n")
                /\ Contains(prompt, "## KEY POINTS\n")
                /\ Contains(prompt, "## CITED SOURCES\n")
                /\ Len(passages) > 0 <=> Contains(prompt, "DOCUMENT PASSAGES")

\* C14 witness: the no-information prompt was returned for empty inputs.
C14_Witness ==
    /\ pc = "prompt_built"
    /\ Len(passages) = 0
    /\ Len(url_snippets) = 0
    /\ prompt = NoInformationPrompt(user_query)

\* C15: the relevance label of a section follows the passage's distance:
\* "high" when the distance is at most 0.6, "medium" when it is above 0.6
\* and at most 1.0, "low" when it is above 1.0, "unknown" when there is no
\* distance or it is not a number; it is always one of the four.
\* (Distances are in hundredths.)
C15_RelevanceLabels ==
    pc = "sections_built" =>
        \A i \in 1..Len(out) :
           LET d == passages[i].distance
               label == out[i].relevance
           IN  /\ label \in {"high", "medium", "low", "unknown"}
               /\ label = "unknown" <=> ~d.isnum
               /\ label = "high" <=> (d.isnum /\ d.v <= 60)
               /\ label = "medium" <=> (d.isnum /\ d.v > 60 /\ d.v <= 100)
               /\ label = "low" <=> (d.isnum /\ d.v > 100)

\* C15 witness: sections for a distance of exactly 0.6, one of exactly 1.0
\* and one that is no number.
C15_Witness ==
    /\ pc = "sections_built"
    /\ Len(out) = 3
    /\ passages[1].distance = Distance(60) /\ out[1].relevance = "high"
    /\ passages[2].distance = Distance(100) /\ out[2].relevance = "medium"
    /\ passages[3].distance = TextDistance /\ out[3].relevance = "unknown"

\* the answer has a "## KEY POINTS" heading, in any case
HasKeyPointsHeading(answer) ==
    \E k \in 1..Len(SplitLines(answer)) :
       UpperStartsWith(Strip(SplitLines(answer)[k]), "## KEY POINTS")

\* C16: when the chosen answer has a "## KEY POINTS" heading (in any case)
\* followed by bullet lines, the result's key_points are exactly the texts
\* of those bullet lines without their markers, in order, from the heading
\* to the next heading or the end of the text.
C16_KeyPointsFromSection ==
    LET bullets == SectionBullets(SplitLines(result.main_response), FALSE)
    IN  (Reconciled /\ Len(bullets) > 0) => result.key_points = bullets

\* C17: when the answer has no key-points heading, the key points are its
\* first lines that are neither empty nor headings, in order, at most 5;
\* never more than 5 entries, never a heading line, never an empty string.
C17_KeyPointsFallback ==
    (Reconciled /\ ~HasKeyPointsHeading(result.main_response)) =>
        /\ result.key_points =
               PlainLines(SplitLines(result.main_response), MaxFallbackPoints)
        /\ Len(result.key_points) <= 5
        /\ \A k \in 1..Len(result.key_points) :
              /\ result.key_points[k] # ""
              /\ ~StartsWith(result.key_points[k], "#")

\* C18: no exception of a collaborator (the vector-store query, a URL
\* fetch, the Gemini call, the Ollama call) leaves the pipeline: each call
\* site catches it and puts an absence marker in its place (empty lists,
\* None, the empty string), and a chat request whose collaborator failed is
\* still answered with a result, not with an error.
C18_CollaboratorFailuresAbsorbed ==
    /\ ~escaped
    /\ store_reply = "raise" =>
           /\ retrieved_data = StoreResult(<<>>)
           /\ pc = "responded" => (http_status = 200 /\ Returned)
    /\ \A i \in 1..Len(fetch_replies) :
           fetch_replies[i] # "http" => fetch_results[i] = None
    /\ (google_reply.kind = "raise" /\ pc \notin {"google", "blocked"}) =>
           google_response \in {"", None}
    /\ (ollama_reply.kind = "raise" /\ pc \notin {"ollama", "blocked"}) =>
           ollama_response \in {"", None}

\* C19: /api/chat answers a query that is empty after trimming with 400,
\* before the vector store is queried and before the generator runs; and
\* the generator called with no passages returns a well-formed result (a
\* non-empty main_response, no sections) without calling a backend and
\* without raising.
C19_EmptyInputs ==
    /\ (caller = "chat" /\ user_query = "") =>
           /\ http_status = 400
           /\ pc = "responded"
           /\ store_reply = "not_called"
           /\ idx = 0 /\ prompt = "" /\ ~Returned
    /\ http_status = 400 => user_query = ""
    /\ (Returned /\ Len(passages) = 0) =>
           /\ ~escaped
           /\ Truthy(result.main_response)
           /\ result.key_points = <<>> /\ result.sections = <<>>
           /\ result.passages = <<>>
           /\ prompt = ""
           /\ google_reply = NotCalled /\ ollama_reply = NotCalled

\* C19 witness: the generator returned for a request that gave it no
\* passage.
C19_Witness ==
    /\ caller = "direct"
    /\ Returned
    /\ Len(passages) = 0
    /\ result.model_used = "none"
    /\ Len(fetch_calls) = 0

C21_FetchContract ==
    /\ Len(out) = Len(fetch_calls)
    /\ Len(net_requests) <= Len(fetch_calls)
    /\ \A i \in 1..Len(out) :
          /\ (out[i].kind # "http" \/ out[i].status # 200 \/ out[i].html = "") =>
                 fetch_results[i] = None
          /\ fetch_results[i] # None =>
                 /\ Len(fetch_results[i]) >= 1
                 /\ Len(fetch_results[i]) <= 3000
    /\ Len(url_snippets) =
          Cardinality({i \in 1..Len(fetch_results) : fetch_results[i] # None})
    /\ \A k \in 1..Len(url_snippets) :
          \E i \in 1..Len(fetch_results) :
             /\ fetch_results[i] # None
             /\ url_snippets[k] = [url |-> fetch_calls[i], text |-> fetch_results[i]]

\* C21 witness: a 404 that left nothing behind, then a page longer than
\* 3000 characters of which exactly 3000 were kept.
C21_Witness ==
    /\ Len(out) = 2
    /\ out[1].status = 404 /\ fetch_results[1] = None
    /\ out[2] = LongPage /\ Len(fetch_results[2]) = 3000
    /\ Len(url_snippets) = 1

\* C22: once the passages carry their ids, no step of
\* generate_detailed_response (the URL loop, the context, the backend
\* calls, the sections) changes a field of a passage, and the passages of
\* the result are the passages as they stood after the ids were given.
C22_PassagesFrozen ==
    [][ /\ pc \notin {"idle", "generate"} => passages' = passages
        /\ Returned' => result'.passages = passages' ]_vars

\* C22 witness: a result after two passages were given ids, a URL was
\* fetched and the backends were called.
C22_Witness ==
    /\ Reconciled
    /\ Len(passages) = 2
    /\ retrieved_data.passages[1].id = Absent
    /\ passages[1].id = "P1"
    /\ Len(url_snippets) >= 1
    /\ result.passages = passages

\* C23: run_next_steps_graph always returns a dict with exactly the keys
\* "suggestions" and "error" and never raises.  When the answer is a
\* string, error is None and there are 1 to 5 suggestions: first the
\* follow-up; then, in this order and each only when its condition holds,
\* the summary (answer longer than 700 characters or more than 4 key
\* points), the deep dive (at least one key point) and the action plan (the
\* question, in lower case, contains "requirement", "plan" or "steps").
C23_NextSteps ==
    pc = "next_steps_done" =>
        /\ DOMAIN out = {"suggestions", "error"}
        /\ ~escaped
        /\ args.answer_text # None =>
              LET q == IF args.user_question = None THEN "" ELSE Lower(args.user_question)
                  expected ==
                      <<"Provide follow-up question">>
                      \o (IF Len(args.answer_text) > 700 \/ Len(args.key_points) > 4
                          THEN <<"Request a shorter summary">> ELSE <<>>)
                      \o (IF Len(args.key_points) >= 1
                          THEN <<"Deep dive into one key point">> ELSE <<>>)
                      \o (IF Contains(q, "requirement") \/ Contains(q, "plan")
                             \/ Contains(q, "steps")
                          THEN <<"Create an action plan">> ELSE <<>>)
              IN  /\ out.error = None
                  /\ Len(out.suggestions) >= 1 /\ Len(out.suggestions) <= 5
                  /\ out.suggestions[1].category = "followup"
                  /\ [k \in 1..Len(out.suggestions) |-> out.suggestions[k].label] = expected

\* C23 witness: all four suggestions, for an answer of 701 characters
\* with one key point and a question about a plan.
C23_Witness ==
    /\ pc = "next_steps_done"
    /\ Len(args.answer_text) = 701
    /\ Len(args.key_points) = 1
    /\ args.user_question = "Plan my degree"
    /\ out.error = None
    /\ Len(out.suggestions) = 4

\* C24: _build_sections_from_passages gives one section for each of the
\* first 5 passages and none for the others, in the order of the passages
\* (no re-ranking), titled "Relevant Passage 1", "Relevant Passage 2", ...;
\* the content of a section is the whole text of its passage.
C24_SectionsTopFive ==
    pc = "sections_built" =>
        /\ Len(out) = IF Len(passages) <= 5 THEN Len(passages) ELSE 5
        /\ \A i \in 1..Len(out) :
              /\ out[i].title = "Relevant Passage " \o ToStr(i)
              /\ out[i].content = passages[i].text
              /\ out[i].source_file = passages[i].source
              /\ out[i].url = passages[i].url

\* C24 witness: six passages, five sections; the second passage is nearer
\* than the first and its 3200 characters are all in its section.
C24_Witness ==
    /\ pc = "sections_built"
    /\ Len(passages) = 6
    /\ Len(out) = 5
    /\ passages[1].distance = Distance(150)
    /\ passages[2].distance = Distance(30)
    /\ Len(out[2].content) = 3200
    /\ out[1].relevance = "low"

\* the head line of the i-th passage block / URL block of the prompt
C25_PassageHead(i) ==
    "[P" \o ToStr(i) \o "] (source file: " \o passages[i].source \o ", url: "
    \o (IF passages[i].url = None THEN "None" ELSE passages[i].url) \o ")"
    \o (IF passages[i].has_images
        THEN " [IMAGES: " \o ToStr(passages[i].image_count) \o "]" ELSE "")
    \o "\n"

C25_UrlHead(i) == "[URL" \o ToStr(i) \o "] (" \o url_snippets[i].url \o ")\n"

\* the text of a block: whole up to n characters, else its first n
\* characters and the marker
C25_Shown(text, n) ==
    IF Len(text) <= n THEN text \o "\n" ELSE SubSeq(text, 1, n) \o " ...\n"

\* the prompt reads `text` from position `at` on
C25_Follows(at, text) ==
    /\ at + Len(text) - 1 <= Len(prompt)
    /\ SubSeq(prompt, at, at + Len(text) - 1) = text

\* C25: the main prompt of _build_prompt lists the first 12 passages at
\* most, in order, each with its id, source, URL and its text cut to 1200
\* characters, with the marker " ..." after it only when the text was
\* longer; the URL snippets are labelled URL1, URL2, ... in their order
\* and cut to 1500 characters the same way; the blocks come in the order
\* instructions, question, passages, URL snippets, output format.
C25_PromptLayout ==
    (pc = "prompt_built" /\ (Len(passages) > 0 \/ Len(url_snippets) > 0)) =>
        LET k == IF Len(passages) <= 12 THEN Len(passages) ELSE 12
            u == Len(url_snippets)
            pAt == [i \in 1..k |-> IndexOf(prompt, C25_PassageHead(i))]
            uAt == [i \in 1..u |-> IndexOf(prompt, C25_UrlHead(i))]
            qAt == IndexOf(prompt, "\nUSER QUESTION:\n" \o user_query \o "\n")
            pHead == IndexOf(prompt, "=== DOCUMENT PASSAGES (from uploaded files) ===")
            uHead == IndexOf(prompt, "=== URL PAGE CONTENT (external pages) ===")
            fAt == IndexOf(prompt, "\nReturn your answer in **this exact markdown")
        IN  /\ StartsWith(prompt, "You are a **strict finance-focused RAG assistant**")
            /\ 1 < qAt
            /\ qAt < fAt
            /\ \A i \in 1..k :
                  /\ pAt[i] > 0
                  /\ C25_Follows(pAt[i] + Len(C25_PassageHead(i)),
                                 C25_Shown(passages[i].text, 1200))
            /\ \A i \in 1..(k - 1) : pAt[i] < pAt[i + 1]
            /\ \A i \in (k + 1)..Len(passages) :
                  ~Contains(prompt, "[P" \o ToStr(i) \o "]")
            /\ k > 0 => (qAt < pHead /\ pHead < pAt[1] /\ pAt[k] < fAt)
            /\ k = 0 => pHead = 0
            /\ \A i \in 1..u :
                  /\ uAt[i] > 0
                  /\ C25_Follows(uAt[i] + Len(C25_UrlHead(i)),
                                 C25_Shown(url_snippets[i].text, 1500))
            /\ \A i \in 1..(u - 1) : uAt[i] < uAt[i + 1]
            /\ ~Contains(prompt, "[URL" \o ToStr(u + 1) \o "]")
            /\ u > 0 => (qAt < uHead /\ uHead < uAt[1] /\ uAt[u] < fAt)
            /\ u = 0 => uHead = 0
            /\ (k > 0 /\ u > 0) => pAt[k] < uHead

\* C25 witness: thirteen passages, a text of 1201 characters first and one
\* of 1200 second, and snippets of 1501 and 1500 characters; the prompt
\* went out with the first twelve.
C25_Witness ==
    /\ pc = "prompt_built"
    /\ Len(passages) = 13
    /\ Len(passages[1].text) = 1201
    /\ Len(passages[2].text) = 1200
    /\ Len(url_snippets) = 2
    /\ Len(url_snippets[1].text) = 1501
    /\ Len(url_snippets[2].text) = 1500
    /\ Contains(prompt, "[P12]")

\* the metadata dict of the raw result that belongs to the passage p, or
\* the empty dict when there is none at its index or the entry is no dict
C26_MetaOf(p) ==
    LET metas == _flatten_chroma_field(retrieved_data.metadatas)
        at == {i \in 1..Len(metas) : PassageId(i - 1) = p.id}
    IN  IF at = {} THEN EmptyMeta
        ELSE LET m == metas[CHOOSE i \in at : TRUE]
             IN  IF m.isdict THEN m ELSE EmptyMeta

\* C26: in a passage of _prepare_passages the url is the metadata URL when
\* there is one ("url", else "source_url"), else the first http(s) URL in
\* the text, else None, so a URL in the text never replaces a metadata
\* URL; the source is the metadata "source", else "file_name", else
\* "Unknown".
C26_UrlAndSource ==
    pc = "normalized" =>
        \A k \in 1..Len(normalized) :
           LET p == normalized[k]
               meta == C26_MetaOf(p)
           IN  /\ p.url = (IF Truthy(meta.url) THEN meta.url
                           ELSE IF Truthy(meta.source_url) THEN meta.source_url
                           ELSE FirstUrl(p.text))
               /\ p.source = (IF meta.source # Absent THEN meta.source
                              ELSE IF meta.file_name # Absent THEN meta.file_name
                              ELSE "Unknown")

\* C26 witness: a passage whose text holds a URL and whose metadata has
\* both URL keys and both source keys.
C26_Witness ==
    /\ pc = "normalized"
    /\ \E k \in 1..Len(normalized) :
          /\ FirstUrl(normalized[k].text) = "http://a.io/fees"
          /\ C26_MetaOf(normalized[k]) = FullMeta
          /\ normalized[k].url = "http://m.io/cat"
          /\ normalized[k].source = "catalog.pdf"

\* C27: in every result model_used agrees with where main_response came
\* from: it is "google" only when main_response is google_raw, "ollama"
\* only when main_response is ollama_raw, and "none" only when the text of
\* no backend is the main_response.
C27_ModelUsedAgrees ==
    Returned =>
        /\ result.model_used \in {"google", "ollama", "none"}
        /\ result.model_used = "google" => result.main_response = result.google_raw
        /\ result.model_used = "ollama" => result.main_response = result.ollama_raw
        /\ result.model_used = "none" =>
              /\ ~(Truthy(result.google_raw) /\ result.main_response = result.google_raw)
              /\ ~(Truthy(result.ollama_raw) /\ result.main_response = result.ollama_raw)

\* C28: the documents, metadatas and ids that add_documents_to_chromadb
\* passes to collection.add have the same length, one entry per stored
\* chunk, for any list of chunks (with or without a text attribute, with
\* or without metadata), and the count it returns is the number of
\* documents added.
C28_ListsAligned ==
    pc = "add_done" =>
        /\ out.add.called =>
              /\ Len(out.add.documents) = Len(out.add.ids)
              /\ Len(out.add.documents) = Len(out.add.metadatas)
        /\ out.returned = Len(out.add.documents)

\* C29: /api/upload accounts for every input: each submitted file or URL
\* is counted as processed (files_uploaded, urls_processed) or has exactly
\* one entry in errors; the reply is 200 "success" exactly when at least
\* one input was processed and 400 when nothing was submitted or nothing
\* was processed; a failure of one input does not stop the others.
C29_UploadAccounts ==
    pc = "upload_replied" =>
        LET inputs == Len(args.files) + Len(args.urls)
            processed == Len(out.files_uploaded) + out.urls_processed
        IN  /\ out.code \in {200, 400}
            /\ out.code = 200 <=> processed > 0
            /\ out.code = 200 <=> out.status = "success"
            /\ processed + Len(out.errors) = inputs

\* the last run handled a turn
C30_Handled == args.did \in {"answered", "error", "empty", "raised"}

\* C30: in the chat UI's session state the processing flag is set only
\* right after a user message is appended; every handled turn clears it,
\* whether it was answered, got an error, got an empty response or raised;
\* an assistant message is appended only for a non-empty successful
\* response, directly after the user message it answers.
C30_SessionState ==
    [][LET before == out.messages
           after == out'.messages
           n == Len(before)
       IN  /\ (out'.processing /\ (~out.processing \/ args'.did = "asked")) =>
                 /\ Len(after) = n + 1
                 /\ SubSeq(after, 1, n) = before
                 /\ after[n + 1].role = "user"
           /\ C30_Handled' =>
                 /\ out.processing
                 /\ ~out'.processing
           /\ (after # before /\ Len(after) > 0 /\ after[Len(after)].role = "assistant") =>
                 /\ args'.did = "answered"
                 /\ ~args'.reply.falsy
                 /\ args'.reply.error = Absent
                 /\ Strip(after[n + 1].content) # ""
                 /\ after[n + 1].content \in {args'.reply.response, args'.reply.main_response}
                 /\ Len(after) = n + 1
                 /\ SubSeq(after, 1, n) = before
                 /\ n > 0
                 /\ before[n].role = "user"
           /\ args'.did \in {"error", "empty", "raised"} => after = before
      ]_vars

\* C30 witness: a turn that was answered after one that ended in an error:
\* two user messages, then the assistant's, and the flag is clear.
C30_Witness ==
    /\ pc = "chat_idle"
    /\ args.did = "answered"
    /\ Len(out.messages) = 3
    /\ out.messages[1].role = "user"
    /\ out.messages[2].role = "user"
    /\ out.messages[3].role = "assistant"
    /\ ~out.processing

============================================================================
